---- MODULE Spec2Model ----
(***************************************************************************)
(* A model of the deep-research core of web-search-mcp:                    *)
(*   src/src/deep-research.ts  (planner, evaluator, extractor, merge,      *)
(*                              budget accounting, recursive orchestrator) *)
(*   src/src/scraper.ts        (pre-filter, page fetcher, configuration)   *)
(*                                                                         *)
(* Conventions.                                                            *)
(*  - Reliability scores, confidences and thresholds are numbers; the      *)
(*    model counts them in tenths, so 10 stands for 1.0 and 15 for 1.5.    *)
(*  - A text (the content of a learning) is a sequence of one-character    *)
(*    strings, so that String.prototype.trim() can be computed.            *)
(*  - A url is a natural number; 0 stands for the empty string ''.         *)
(*  - An optional number that the code reads through `x || 0` or through   *)
(*    `typeof x === 'number' && x` is 0 when it is absent.                 *)
(***************************************************************************)
EXTENDS Integers, Sequences, FiniteSets, TLC

(***************************************************************************)
(* Bounds of the model.                                                    *)
(***************************************************************************)
\* the largest CONCURRENCY value an invocation is configured with
MaxConcurrency == 3
\* the largest number of SerpQueries one planner call returns
MaxQueries == 2
\* the largest `depth` argument of the root call
MaxDepth == 2
\* the largest number of hits one search call returns
MaxHits == 2
\* the largest length of a list handed to a pure function under test
MaxLen == 2

(***************************************************************************)
(* Generic helpers on sequences.                                           *)
(***************************************************************************)
Range(s) == {s[i] : i \in 1..Len(s)}

RECURSIVE FlatMap(_)
FlatMap(ss) == IF ss = <<>> THEN <<>> ELSE Head(ss) \o FlatMap(Tail(ss))

RECURSIVE SelectIdx(_, _)
\* the increasing sequence of the indices of s that belong to the set keep
SelectIdx(n, keep) ==
    IF n = 0 THEN <<>>
    ELSE IF n \in keep THEN Append(SelectIdx(n - 1, keep), n)
    ELSE SelectIdx(n - 1, keep)

\* Array.from(new Set(s)): first occurrences, in order
RECURSIVE ArrayFromSet(_)
ArrayFromSet(s) ==
    IF s = <<>> THEN <<>>
    ELSE LET front == ArrayFromSet(SubSeq(s, 1, Len(s) - 1))
             last  == s[Len(s)]
         IN IF last \in Range(front) THEN front ELSE Append(front, last)

Max2(a, b) == IF a >= b THEN a ELSE b
Min2(a, b) == IF a <= b THEN a ELSE b

(***************************************************************************)
(* String.prototype.trim on texts.                                         *)
(***************************************************************************)
RECURSIVE TrimStart(_)
TrimStart(s) == IF s # <<>> /\ Head(s) = " " THEN TrimStart(Tail(s)) ELSE s

RECURSIVE TrimEnd(_)
TrimEnd(s) ==
    IF s # <<>> /\ s[Len(s)] = " " THEN TrimEnd(SubSeq(s, 1, Len(s) - 1)) ELSE s

trim(s) == TrimEnd(TrimStart(s))

(***************************************************************************)
(* A JavaScript Map filled by the merge loops: a sequence of               *)
(* [key, value] entries in insertion order. map.set on a present key       *)
(* replaces the value and keeps the entry's place.                         *)
(***************************************************************************)
MapHas(m, k) == \E i \in 1..Len(m) : m[i].key = k
MapIdx(m, k) == CHOOSE i \in 1..Len(m) : m[i].key = k
MapGet(m, k) == m[MapIdx(m, k)].value
MapSet(m, k, v) ==
    IF MapHas(m, k) THEN [m EXCEPT ![MapIdx(m, k)].value = v]
    ELSE Append(m, [key |-> k, value |-> v])
MapValues(m) == [i \in 1..Len(m) |-> m[i].value]

(***************************************************************************)
(* mergeWeightedLearnings (deep-research.ts 66-80).                        *)
(* A weighted learning is [content, reliability].                          *)
(***************************************************************************)
\* mutant: the first entry of a content wins, whatever its reliability
mergeWeightedLearnings_first(existing, incoming) ==
    LET items == existing \o incoming
        RECURSIVE Loop(_, _)
        Loop(byContent, i) ==
            IF i > Len(items) THEN byContent
            ELSE LET item == items[i]
                     key  == trim(item.content)
                 IN IF key = <<>> THEN Loop(byContent, i + 1)
                    ELSE IF ~MapHas(byContent, key)
                    THEN Loop(MapSet(byContent, key,
                              [content |-> item.content,
                               reliability |-> item.reliability]), i + 1)
                    ELSE Loop(byContent, i + 1)
    IN MapValues(Loop(<<>>, 1))

\* mutant: the map is keyed by the untrimmed content and keeps blank texts
mergeWeightedLearnings_rawkey(existing, incoming) ==
    LET items == existing \o incoming
        RECURSIVE Loop(_, _)
        Loop(byContent, i) ==
            IF i > Len(items) THEN byContent
            ELSE LET item == items[i]
                     key  == item.content
                 IN IF ~MapHas(byContent, key)
                       \/ item.reliability > MapGet(byContent, key).reliability
                    THEN Loop(MapSet(byContent, key,
                              [content |-> item.content,
                               reliability |-> item.reliability]), i + 1)
                    ELSE Loop(byContent, i + 1)
    IN MapValues(Loop(<<>>, 1))

\* mutant: a repeated content gets the mean of the two reliabilities
mergeWeightedLearnings_mean(existing, incoming) ==
    LET items == existing \o incoming
        RECURSIVE Loop(_, _)
        Loop(byContent, i) ==
            IF i > Len(items) THEN byContent
            ELSE LET item == items[i]
                     key  == trim(item.content)
                 IN IF key = <<>> THEN Loop(byContent, i + 1)
                    ELSE IF ~MapHas(byContent, key)
                    THEN Loop(MapSet(byContent, key,
                              [content |-> item.content,
                               reliability |-> item.reliability]), i + 1)
                    ELSE Loop(MapSet(byContent, key,
                              [content |-> MapGet(byContent, key).content,
                               reliability |->
                                 (MapGet(byContent, key).reliability
                                    + item.reliability) \div 2]), i + 1)
    IN MapValues(Loop(<<>>, 1))

mergeWeightedLearnings(existing, incoming) ==
    LET items == existing \o incoming
        RECURSIVE Loop(_, _)
        Loop(byContent, i) ==
            IF i > Len(items) THEN byContent
            ELSE LET item == items[i]
                     key  == trim(item.content)
                 IN IF key = <<>> THEN Loop(byContent, i + 1)
                    ELSE IF ~MapHas(byContent, key)
                            \/ item.reliability > MapGet(byContent, key).reliability
                    THEN Loop(MapSet(byContent, key,
                              [content |-> item.content,
                               reliability |-> item.reliability]), i + 1)
                    ELSE Loop(byContent, i + 1)
    IN MapValues(Loop(<<>>, 1))

(***************************************************************************)
(* mergeSourceMetadata (deep-research.ts 82-95).                           *)
(* A source record is [url, domain, reliabilityScore,                      *)
(* reliabilityReasoning]; title and publishDate are carried along          *)
(* untouched by the code and are left out.                                 *)
(***************************************************************************)
\* mutant: the last record of a url wins, whatever its score
mergeSourceMetadata_last(existing, incoming) ==
    LET items == existing \o incoming
        RECURSIVE Loop(_, _)
        Loop(byUrl, i) ==
            IF i > Len(items) THEN byUrl
            ELSE LET item == items[i]
                 IN IF item.url = 0 THEN Loop(byUrl, i + 1)
                    ELSE Loop(MapSet(byUrl, item.url, item), i + 1)
    IN MapValues(Loop(<<>>, 1))

\* mutant: no grouping, the two lists are concatenated
mergeSourceMetadata_concat(existing, incoming) == existing \o incoming

mergeSourceMetadata(existing, incoming) ==
    LET items == existing \o incoming
        RECURSIVE Loop(_, _)
        Loop(byUrl, i) ==
            IF i > Len(items) THEN byUrl
            ELSE LET item == items[i]
                 IN IF item.url = 0 THEN Loop(byUrl, i + 1)
                    ELSE IF ~MapHas(byUrl, item.url)
                            \/ item.reliabilityScore
                                 > MapGet(byUrl, item.url).reliabilityScore
                    THEN Loop(MapSet(byUrl, item.url, item), i + 1)
                    ELSE Loop(byUrl, i + 1)
    IN MapValues(Loop(<<>>, 1))

(***************************************************************************)
(* BudgetState and recordUsage (deep-research.ts 104-125, the same code    *)
(* in scraper.ts 16-31).                                                   *)
(*   budget: [defined, tokenBudget, usedTokens, reached]; defined = FALSE  *)
(*           is the `undefined` budget of a call without tokenBudget.      *)
(*   usage : [defined, totalTokens, inputTokens, outputTokens].            *)
(***************************************************************************)
NoBudget == [defined |-> FALSE, tokenBudget |-> 0, usedTokens |-> 0,
             reached |-> FALSE]

Tokens(n) == [defined |-> TRUE, totalTokens |-> n, inputTokens |-> 0,
              outputTokens |-> 0]

\* usage.totalTokens when it is a non-zero number, else input + output
usageTotal(usage) ==
    IF usage.totalTokens # 0 THEN usage.totalTokens
    ELSE usage.inputTokens + usage.outputTokens

\* mutant: usage that arrives once the cap is reached is not counted
recordUsage_stopped(budget, usage) ==
    IF ~budget.defined \/ ~usage.defined \/ budget.reached THEN budget
    ELSE LET total == usageTotal(usage)
         IN IF total > 0
            THEN LET used == budget.usedTokens + total
                 IN [budget EXCEPT
                       !.usedTokens = used,
                       !.reached = budget.tokenBudget > 0
                                   /\ used >= budget.tokenBudget]
            ELSE budget

\* mutant: the counter is overwritten instead of incremented
recordUsage_assign(budget, usage) ==
    IF ~budget.defined \/ ~usage.defined THEN budget
    ELSE LET total == usageTotal(usage)
         IN IF total > 0
            THEN [budget EXCEPT
                    !.usedTokens = total,
                    !.reached = budget.reached
                        \/ (budget.tokenBudget > 0 /\ total >= budget.tokenBudget)]
            ELSE budget

\* mutant: the flag is recomputed at every call and only an exact hit of the
\* cap sets it
recordUsage_exact(budget, usage) ==
    IF ~budget.defined \/ ~usage.defined THEN budget
    ELSE LET total == usageTotal(usage)
         IN IF total > 0
            THEN LET used == budget.usedTokens + total
                 IN [budget EXCEPT
                       !.usedTokens = used,
                       !.reached = budget.tokenBudget > 0
                                   /\ used = budget.tokenBudget]
            ELSE budget

\* mutant: the cap must be exceeded, not merely met
recordUsage_strict(budget, usage) ==
    IF ~budget.defined \/ ~usage.defined THEN budget
    ELSE LET total == usageTotal(usage)
         IN IF total > 0
            THEN LET used == budget.usedTokens + total
                 IN [budget EXCEPT
                       !.usedTokens = used,
                       !.reached = budget.reached
                           \/ (budget.tokenBudget > 0 /\ used > budget.tokenBudget)]
            ELSE budget

recordUsage(budget, usage) ==
    IF ~budget.defined \/ ~usage.defined THEN budget
    ELSE LET total == usageTotal(usage)
         IN IF total > 0
            THEN LET used == budget.usedTokens + total
                 IN [budget EXCEPT
                       !.usedTokens = used,
                       !.reached = budget.reached
                           \/ (budget.tokenBudget > 0 /\ used >= budget.tokenBudget)]
            ELSE budget

(***************************************************************************)
(* generateSerpQueries, after the planner call returned                    *)
(* (deep-research.ts 224-244). A SerpQuery of the model is                 *)
(* [reliabilityThreshold, isVerificationQuery]; the query text, the        *)
(* research goal and the related direction only feed prompts.              *)
(***************************************************************************)
\* Math.max(0, Math.min(1, x)) in tenths
clampThreshold(x) == Max2(0, Min2(10, x))

\* mutant: only the upper end is clamped
validatedQueries_nofloor(queries) ==
    [i \in 1..Len(queries) |->
        [queries[i] EXCEPT !.reliabilityThreshold = Min2(10, @)]]

validatedQueries(queries) ==
    [i \in 1..Len(queries) |->
        [queries[i] EXCEPT !.reliabilityThreshold = clampThreshold(@)]]

(***************************************************************************)
(* Pages, evaluations and processSerpResult (deep-research.ts 247-466).    *)
(*   page : [url, markdown]; markdown 0 is the absent (undefined) body,    *)
(*          any other number names the body that was fetched.              *)
(*   evaluation returned by the model: [index, score, reasoning, use],     *)
(*          index counted from 0 as in the code.                           *)
(***************************************************************************)
\* new URL(url).hostname; '' (0) for the empty url. Two urls share a host.
hostname(url) == IF url = 0 THEN 0 ELSE (url + 1) \div 2

\* compact(result.data).filter(item => !!item.url)
validItems(data) ==
    LET keep == {i \in 1..Len(data) : data[i].url # 0}
        idx  == SelectIdx(Len(data), keep)
    IN [k \in 1..Len(idx) |-> data[idx[k]]]

\* evaluateSourcesReliability, lines 298-304: one result per evaluation, in
\* the order the model returned them; the domain is that of items[ev.index]
evaluationResults(items, evaluations) ==
    [k \in 1..Len(evaluations) |->
        LET ev == evaluations[k]
            inRange == ev.index >= 0 /\ ev.index < Len(items)
        IN [score |-> ev.score, reasoning |-> ev.reasoning, use |-> ev.use,
            domain |-> IF inRange THEN hostname(items[ev.index + 1].url) ELSE 0]]

\* mutant: the catch leaves the list of results empty
evaluationFallback_none(items) == <<>>

\* the catch of lines 340-347
evaluationFallback(items) ==
    [k \in 1..Len(items) |->
        [score |-> 5, reasoning |-> "Evaluation failed", use |-> TRUE,
         domain |-> hostname(items[k].url)]]

\* lines 349-355: the positions of validItems that are kept
keptIdx(items, reliabilityResults) ==
    SelectIdx(Len(items),
        {i \in 1..Len(items) :
            ~(i <= Len(reliabilityResults) /\ reliabilityResults[i].use = FALSE)})

\* mutant: a source the evaluator refused is kept all the same
keptIdx_all(items, reliabilityResults) == SelectIdx(Len(items), 1..Len(items))

\* lines 358-361: the bodies of the kept pages that have one
contentsOf(items, kept) ==
    LET withBody == {k \in 1..Len(kept) : items[kept[k]].markdown # 0}
        idx == SelectIdx(Len(kept), withBody)
    IN [j \in 1..Len(idx) |-> items[kept[idx[j]]].markdown]

\* lines 363-375
sourceMetadataOf(items, reliabilityResults, kept) ==
    [k \in 1..Len(kept) |->
        LET i    == kept[k]
            item == items[i]
            has  == i <= Len(reliabilityResults)
        IN [url |-> item.url,
            domain |-> IF has /\ reliabilityResults[i].domain # 0
                       THEN reliabilityResults[i].domain
                       ELSE hostname(item.url),
            reliabilityScore |-> IF has THEN reliabilityResults[i].score ELSE 5,
            reliabilityReasoning |->
                IF has /\ reliabilityResults[i].reasoning # ""
                THEN reliabilityResults[i].reasoning
                ELSE "No reasoning provided"]]

\* Array.prototype.sort with (a, b) => b.score - a.score: stable, descending
RECURSIVE InsertDesc(_, _)
InsertDesc(sorted, x) ==
    IF sorted = <<>> THEN <<x>>
    ELSE IF Head(sorted).metadata.reliabilityScore >= x.metadata.reliabilityScore
    THEN <<Head(sorted)>> \o InsertDesc(Tail(sorted), x)
    ELSE <<x>> \o sorted

RECURSIVE SortByReliabilityDesc(_)
SortByReliabilityDesc(s) ==
    IF s = <<>> THEN <<>>
    ELSE InsertDesc(SortByReliabilityDesc(SubSeq(s, 1, Len(s) - 1)), s[Len(s)])

\* lines 377-383, then sorted in place by the .sort of line 387
contentWithMetadata(contents, sourceMetadata) ==
    LET n == Min2(Len(contents), Len(sourceMetadata))
    IN SortByReliabilityDesc(
         [i \in 1..n |-> [content |-> contents[i], metadata |-> sourceMetadata[i]]])

\* lines 385-389
sortedContents(cwm, reliabilityThreshold) ==
    LET keep == {i \in 1..Len(cwm) :
                    cwm[i].metadata.reliabilityScore >= reliabilityThreshold}
        idx == SelectIdx(Len(cwm), keep)
    IN [j \in 1..Len(idx) |-> cwm[idx[j]].content]

\* what processSerpResult has computed when it reaches line 393
\* (data: the fetched pages; reliabilityResults: the evaluator's results
\* or its fallback)
serpEvaluation(data, reliabilityResults, reliabilityThreshold) ==
    LET items    == validItems(data)
        kept     == keptIdx(items, reliabilityResults)
        contents == contentsOf(items, kept)
        metadata == sourceMetadataOf(items, reliabilityResults, kept)
        cwm      == contentWithMetadata(contents, metadata)
    IN [contents |-> contents,
        sourceMetadata |-> metadata,
        extractorInput |-> cwm,
        sortedContents |-> sortedContents(cwm, reliabilityThreshold)]

\* lines 393-402: the return without an extractor call
emptyProcessed(sourceMetadata) ==
    [weightedLearnings |-> <<>>, followUpQuestions |-> <<>>,
     followUpPriorities |-> <<>>, sourceMetadata |-> sourceMetadata]

\* mutant: the confidence is clamped into [0,1], as the threshold is
extractedLearnings_clamped(learnings) ==
    [i \in 1..Len(learnings) |->
        [content |-> learnings[i].content,
         reliability |-> clampThreshold(learnings[i].confidence)]]

\* lines 448-452
extractedLearnings(learnings) ==
    [i \in 1..Len(learnings) |->
        [content |-> learnings[i].content,
         reliability |-> learnings[i].confidence]]

\* lines 454-465: the return after the extractor call
\* (object: [learnings, followUpQuestions] as the model returned them)
processed(object, sourceMetadata, numFollowUpQuestions) ==
    LET limited == SubSeq(object.followUpQuestions, 1,
                      Min2(numFollowUpQuestions, Len(object.followUpQuestions)))
    IN [weightedLearnings |-> extractedLearnings(object.learnings),
        followUpQuestions |-> [i \in 1..Len(limited) |-> limited[i].question],
        followUpPriorities |-> [i \in 1..Len(limited) |-> limited[i].priority],
        sourceMetadata |-> sourceMetadata]

(***************************************************************************)
(* The state of one deepResearch invocation.                               *)
(*                                                                         *)
(* A node of the recursion (one deepResearch call) is named by the path    *)
(* of SerpQuery indices that leads to it: <<>> is the root call, <<2>> the *)
(* call made by the second SerpQuery task of the root, and so on. The      *)
(* SerpQuery task i of node n is named Append(n, i); the recursive call a  *)
(* task makes has the task's own name.                                     *)
(***************************************************************************)
VARIABLES
    concurrency,  \* Config.concurrency, the capacity of concurrencyLimiter
    budget,       \* the BudgetState shared by all nodes (NoBudget: undefined)
    returnedTokens, \* history: token totals of the gateway calls that returned
    node,         \* node path -> the frame of that deepResearch call
    task,         \* task path -> the SerpQuery task (lines 636-790)
    queue,        \* concurrencyLimiter: the jobs waiting for a slot, in order
    active,       \* concurrencyLimiter: the jobs holding a slot
    fetched,      \* history: urls for which scrapeUrl returned a page
    evaluated,    \* history: source records processSerpResult returned
    extracted,    \* history: weighted learnings the extractor returned
    pure          \* a pure function under test: [fn, in, out, returned]

vars == <<concurrency, budget, returnedTokens, node, task, queue, active,
          fetched, evaluated, extracted, pure>>

\* the history of the token totals once a gateway call with this usage has
\* returned to an invocation with this BudgetState (nothing is summed for an
\* invocation that has none)
returnedWith(bud, usage) ==
    IF bud.defined THEN returnedTokens + usageTotal(usage) ELSE returnedTokens

\* no pure function is under test while an invocation runs
NoCall == [fn |-> "none", in |-> <<>>, out |-> <<>>, returned |-> FALSE]

\* deepResearch as a function of what its collaborators answer: while it is
\* the function under test, pure.in holds the answer each call has received,
\* as <<the call, [ok, value]>>; the call is <<"planner", n, 0>> of node n,
\* <<"search", p, 0>>, <<"evaluate", p, 0>>, <<"extract", p, 0>> of task p,
\* <<"filter", p, i>> for its hit i and <<"fetch", p, k>> for its k-th fetch
received(kind, path, index, ok, value) ==
    IF pure.fn = "deepResearch"
    THEN [pure EXCEPT !.in = @ \cup {<<<<kind, path, index>>,
                                       [ok |-> ok, value |-> value]>>}]
    ELSE pure

Paths(n) == UNION {[1..k -> 1..MaxQueries] : k \in 0..n}
NodeIds == Paths(MaxDepth - 1)
TaskIds == Paths(MaxDepth) \ {<<>>}

Front(p) == SubSeq(p, 1, Len(p) - 1)

\* a job of the limiter: <<p, 0>> is the SerpQuery task p, <<p, i>> the
\* pre-filter call for hit i of task p
SerpJob(p) == <<p, 0>>
FilterJob(p, i) == <<p, i>>

EmptyAcc == [weightedLearnings |-> <<>>, sourceMetadata |-> <<>>,
             visitedUrls |-> <<>>]

IdleNode == [status |-> "idle", breadth |-> 0, depth |-> 0, seed |-> EmptyAcc,
             directions |-> <<>>, queries |-> <<>>, result |-> EmptyAcc]

IdleTask == [pc |-> "idle", hits |-> <<>>, pf |-> <<>>, pages |-> <<>>,
             sourceMetadata |-> <<>>, extractorInput |-> <<>>,
             followUpQuestions |-> <<>>, followUpPriorities |-> <<>>,
             result |-> EmptyAcc, failed |-> FALSE]

(***************************************************************************)
(* What the collaborators may answer (the model gateway, the search        *)
(* backend, the page fetcher).                                             *)
(***************************************************************************)
\* raw reliabilityThreshold values of the planner model (tenths)
RawThresholds == {-2, 0, 3, 10, 12}

PlannerResponses ==
    {[i \in 1..k |-> [reliabilityThreshold |-> th, isVerificationQuery |-> FALSE]] :
        k \in 0..MaxQueries, th \in {3}}

\* token usage reported with a gateway response: a total, or the split
\* counts only
Usages == {Tokens(2),
           [defined |-> TRUE, totalTokens |-> 0, inputTokens |-> 1,
            outputTokens |-> 1]}

\* the extractor's answer may also be a short one
ExtractorUsages == Usages \cup {Tokens(1)}

\* the token budget of the root call, when one is given
BudgetCap == 4

\* hits of one search call: the first k urls of the backend's ranking. The
\* backend has MaxHits results for an invocation of depth 1 and one less for
\* each further level of depth (deeper trees are explored with shorter lists).
HitLimit == MaxHits + 1 - node[<<>>].depth
SearchResponses == {[i \in 1..k |-> i] : k \in 0..HitLimit}

\* what scrapeUrl resolves to (scraper.ts 105-145): null, a page with a
\* markdown body, a page whose markdown is empty (markdown || undefined)
NullPage == [state |-> "null", url |-> 0, markdown |-> 0]
PendingPage(u) == [state |-> "pending", url |-> u, markdown |-> 0]
scrapeUrl(u) ==
    {NullPage,
     [state |-> "page", url |-> u, markdown |-> u],
     [state |-> "page", url |-> u, markdown |-> 0]}

\* what the evaluator model says of one source
Verdicts == {[score |-> 9, use |-> TRUE], [score |-> 2, use |-> TRUE],
             [score |-> 5, use |-> FALSE]}

\* evaluations for n sources, one per source and in their order
EvalResponses(n) ==
    {[k \in 1..n |-> [index |-> k - 1, score |-> v[k].score,
                      reasoning |-> "r", use |-> v[k].use]] :
        v \in [1..n -> Verdicts]}

\* what the extractor model returns
ExtractResponses ==
    {[learnings |-> <<>>, followUpQuestions |-> <<>>],
     [learnings |-> <<[content |-> <<"a">>, confidence |-> 5]>>,
      followUpQuestions |-> <<[question |-> "q1", priority |-> 0],
                              [question |-> "q2", priority |-> 5]>>],
     [learnings |-> <<[content |-> <<" ", "a">>, confidence |-> 12],
                      [content |-> <<" ">>, confidence |-> 7]>>,
      followUpQuestions |-> <<>>]}

(***************************************************************************)
(* deepResearch: the straight-line code between two awaits.                *)
(*                                                                         *)
(* Each operator below gives what a SerpQuery task does from one point of  *)
(* lines 636-790 up to its next suspension, as an outcome                  *)
(*   [task: the task's new record, spawn/child: the recursive call it      *)
(*    makes, release: whether it settles and frees its limiter slot,       *)
(*    enqueue: the jobs it hands to the limiter, sources: the source       *)
(*    records processSerpResult returned to it].                           *)
(***************************************************************************)
Outcome(t, spawn, child, release, enqueue) ==
    [task |-> t, spawn |-> spawn, child |-> child, release |-> release,
     enqueue |-> enqueue, sources |-> {}]

\* mutant: the seeded learnings are passed on as they were given
normalizedWeightedLearnings_raw(n) == node[n].seed.weightedLearnings

\* lines 569-579 of the frame of node n
normalizedWeightedLearnings(n) ==
    mergeWeightedLearnings(<<>>, node[n].seed.weightedLearnings)
normalizedSourceMetadata(n) ==
    mergeSourceMetadata(<<>>, node[n].seed.sourceMetadata)

\* the SerpQuery a task runs
serpQuery(p) == node[Front(p)].queries[p[Len(p)]]

\* a pre-filter job that outlives its task keeps running; its answer is dropped
settledFilters(pf) ==
    [i \in 1..Len(pf) |-> IF pf[i] \in {"queued", "running"} THEN pf[i] ELSE "over"]

\* the task settles with `result`
settled(t, result, failed) ==
    [IdleTask EXCEPT !.pc = "done", !.pf = settledFilters(t.pf),
                     !.result = result, !.failed = failed]

\* lines 638-644 and 782-788
emptyResult == EmptyAcc

\* mutant: the catch hands back the accumulators the node was seeded with
caught_seeded(p, t) ==
    Outcome(settled(t, [weightedLearnings |-> normalizedWeightedLearnings(Front(p)),
                        sourceMetadata |-> normalizedSourceMetadata(Front(p)),
                        visitedUrls |-> node[Front(p)].seed.visitedUrls], TRUE),
            FALSE, IdleNode, TRUE, <<>>)

\* mutant: the flag is never looked at
budgetReached_ignored(bud) == FALSE

\* budget?.reached (lines 637 and 703)
budgetReached(bud) == bud.defined /\ bud.reached

\* the catch of lines 776-789
taskFails(p, t) ==
    Outcome(settled(t, emptyResult, TRUE), FALSE, IdleNode, TRUE, <<>>)

\* scrapeUrls (scraper.ts 154-156): the pages that are not null, in order
scrapedResults(pages) ==
    LET idx == SelectIdx(Len(pages), {k \in 1..Len(pages) : pages[k].state = "page"})
    IN [j \in 1..Len(idx) |-> [url |-> pages[idx[j]].url,
                               markdown |-> pages[idx[j]].markdown]]

\* line 676: compact(scrapedResults.map(item => item.url))
newUrlsOf(data) ==
    LET idx == SelectIdx(Len(data), {k \in 1..Len(data) : data[k].url # 0})
    IN [j \in 1..Len(idx) |-> data[idx[j]].url]

\* line 677: Math.ceil(breadth / 2)
newBreadth(breadth) == (breadth + 1) \div 2

\* mutant: the recursion keeps its depth
newDepth_same(depth) == depth

\* line 678
newDepth(depth) == depth - 1

\* lines 751-755: the follow-up questions become research directions; a
\* missing (or zero) priority becomes 3. The parentGoal is the text of the
\* SerpQuery's goal and is left out.
researchDirections(followUpQuestions, followUpPriorities) ==
    [i \in 1..Len(followUpQuestions) |->
        [question |-> followUpQuestions[i],
         priority |-> IF i <= Len(followUpPriorities) /\ followUpPriorities[i] # 0
                      THEN followUpPriorities[i] ELSE 3]]

\* mutant: a task that finds the budget reached returns the empty result of
\* lines 638-644
afterProcessed_dropped(p, t, proc, bud) ==
    LET n == Front(p)
        newUrls == newUrlsOf(scrapedResults(t.pages))
        all == [weightedLearnings |->
                    mergeWeightedLearnings(normalizedWeightedLearnings(n),
                                           proc.weightedLearnings),
                sourceMetadata |->
                    mergeSourceMetadata(normalizedSourceMetadata(n),
                                        proc.sourceMetadata),
                visitedUrls |->
                    ArrayFromSet(node[n].seed.visitedUrls \o newUrls)]
        out == IF budgetReached(bud)
               THEN Outcome(settled(t, emptyResult, FALSE), FALSE, IdleNode, TRUE, <<>>)
               ELSE IF newDepth(node[n].depth) <= 0
               THEN Outcome(settled(t, all, FALSE), FALSE, IdleNode, TRUE, <<>>)
               ELSE Outcome([IdleTask EXCEPT
                                !.pc = "child",
                                !.pf = settledFilters(t.pf),
                                !.followUpQuestions = proc.followUpQuestions,
                                !.followUpPriorities = proc.followUpPriorities],
                            TRUE,
                            [IdleNode EXCEPT
                                !.status = "planning",
                                !.breadth = newBreadth(node[n].breadth),
                                !.depth = newDepth(node[n].depth),
                                !.seed = all,
                                !.directions =
                                    researchDirections(proc.followUpQuestions,
                                                       proc.followUpPriorities)],
                            FALSE, <<>>)
    IN [out EXCEPT !.sources = Range(proc.sourceMetadata)]

\* lines 691-775: merge with the seeded accumulators, then return or recurse
afterProcessed(p, t, proc, bud) ==
    LET n == Front(p)
        newUrls == newUrlsOf(scrapedResults(t.pages))
        all == [weightedLearnings |->
                    mergeWeightedLearnings(normalizedWeightedLearnings(n),
                                           proc.weightedLearnings),
                sourceMetadata |->
                    mergeSourceMetadata(normalizedSourceMetadata(n),
                                        proc.sourceMetadata),
                visitedUrls |->
                    ArrayFromSet(node[n].seed.visitedUrls \o newUrls)]
        out == IF budgetReached(bud) \/ newDepth(node[n].depth) <= 0
               THEN Outcome(settled(t, all, FALSE), FALSE, IdleNode, TRUE, <<>>)
               ELSE Outcome([IdleTask EXCEPT
                                !.pc = "child",
                                !.pf = settledFilters(t.pf),
                                !.followUpQuestions = proc.followUpQuestions,
                                !.followUpPriorities = proc.followUpPriorities],
                            TRUE,
                            [IdleNode EXCEPT
                                !.status = "planning",
                                !.breadth = newBreadth(node[n].breadth),
                                !.depth = newDepth(node[n].depth),
                                !.seed = all,
                                !.directions =
                                    researchDirections(proc.followUpQuestions,
                                                       proc.followUpPriorities)],
                            FALSE, <<>>)
    IN [out EXCEPT !.sources = Range(proc.sourceMetadata)]

\* lines 349-404: from the evaluator's results to the extractor call
afterEvaluation(p, t, reliabilityResults, bud) ==
    LET ev == serpEvaluation(scrapedResults(t.pages), reliabilityResults,
                             serpQuery(p).reliabilityThreshold)
    IN IF ev.contents = <<>>
       THEN afterProcessed(p, t, emptyProcessed(ev.sourceMetadata), bud)
       ELSE Outcome([t EXCEPT !.pc = "extract",
                              !.sourceMetadata = ev.sourceMetadata,
                              !.extractorInput = ev.extractorInput],
                    FALSE, IdleNode, FALSE, <<>>)

\* mutant: a task without any page gives up through its catch
afterScrape_giveup(p, t, bud) ==
    IF validItems(scrapedResults(t.pages)) = <<>>
    THEN taskFails(p, t)
    ELSE Outcome([t EXCEPT !.pc = "evaluate"], FALSE, IdleNode, FALSE, <<>>)

\* mutant: the evaluator is called even when there is nothing to evaluate
afterScrape_always(p, t, bud) ==
    Outcome([t EXCEPT !.pc = "evaluate"], FALSE, IdleNode, FALSE, <<>>)

\* lines 668-689 and 335-339, 260: from the fetched pages to the evaluator call
afterScrape(p, t, bud) ==
    IF validItems(scrapedResults(t.pages)) = <<>>
    THEN afterEvaluation(p, t, <<>>, bud)
    ELSE Outcome([t EXCEPT !.pc = "evaluate"], FALSE, IdleNode, FALSE, <<>>)

\* mutant: every hit is fetched, whatever the pre-filter said
urlsToScrape_all(t) == t.hits

\* scraper.ts 87 and 147-152: the urls the pre-filter let through are all
\* fetched at once
urlsToScrape(t) ==
    LET idx == SelectIdx(Len(t.pf), {i \in 1..Len(t.pf) : t.pf[i] = "yes"})
    IN [j \in 1..Len(idx) |-> t.hits[idx[j]]]

afterFilter(p, t, bud) ==
    LET urls == urlsToScrape(t)
    IN IF urls = <<>>
       THEN afterScrape(p, [t EXCEPT !.pages = <<>>], bud)
       ELSE Outcome([t EXCEPT !.pc = "fetch",
                              !.pages = [k \in 1..Len(urls) |-> PendingPage(urls[k])]],
                    FALSE, IdleNode, FALSE, <<>>)

\* lines 654-665 and scraper.ts 49-53: one limiter job per hit
afterSearch(p, t, hits, bud) ==
    IF hits = <<>>
    THEN afterFilter(p, t, bud)
    ELSE Outcome([t EXCEPT !.pc = "filter", !.hits = hits,
                           !.pf = [i \in 1..Len(hits) |-> "queued"]],
                 FALSE, IdleNode, FALSE,
                 [i \in 1..Len(hits) |-> FilterJob(p, i)])

\* the effect of an outcome of task p on the state; `freed` are the other
\* jobs that settle in the same step
Apply(p, out, freed) ==
    /\ task' = [task EXCEPT ![p] = out.task]
    /\ node' = IF out.spawn THEN [node EXCEPT ![p] = out.child] ELSE node
    /\ active' = (active \ freed) \ (IF out.release THEN {SerpJob(p)} ELSE {})
    /\ queue' = queue \o out.enqueue
    /\ evaluated' = evaluated \cup out.sources

(***************************************************************************)
(* The limiter and the promise plumbing. Promise continuations run as      *)
(* microtasks: they all run before the next I/O completion is delivered,   *)
(* so the completion actions below wait until none of them is pending.     *)
(***************************************************************************)
tasksOf(n) == {Append(n, i) : i \in 1..Len(node[n].queries)}

CanStartJob == queue # <<>> /\ Cardinality(active) < concurrency

CanNodeReturn(n) ==
    /\ node[n].status = "fanout"
    /\ \A p \in tasksOf(n) : task[p].pc = "done"

CanNodeReject(n) ==
    /\ node[n].status = "fanout"
    /\ \E p \in tasksOf(n) : task[p].pc = "rejected"

CanChildSettle(p) ==
    /\ task[p].pc = "child"
    /\ node[p].status \in {"done", "rejected"}

MicrotaskPending ==
    \/ CanStartJob
    \/ \E n \in NodeIds : CanNodeReturn(n) \/ CanNodeReject(n)
    \/ \E p \in NodeIds \ {<<>>} : CanChildSettle(p)

\* concurrencyLimiter (p-limit): the oldest waiting job takes a free slot.
\* A SerpQuery task first reads budget.reached (lines 637-645); a pre-filter
\* job first looks at its hit's url (scraper.ts 54).
StartJob ==
    /\ CanStartJob
    /\ LET job == Head(queue)
           p   == job[1]
           i   == job[2]
           t   == task[p]
       IN IF i = 0
          THEN /\ queue' = Tail(queue)
               /\ node' = node
               /\ IF budgetReached(budget)
                  THEN /\ task' = [task EXCEPT ![p] = settled(t, emptyResult, FALSE)]
                       /\ active' = active
                  ELSE /\ task' = [task EXCEPT ![p].pc = "search"]
                       /\ active' = active \cup {job}
          ELSE IF t.pc = "filter" /\ t.hits[i] = 0
          THEN LET t2 == [t EXCEPT !.pf[i] = "no"]
                   out == IF \A k \in 1..Len(t2.pf) : t2.pf[k] \in {"yes", "no"}
                          THEN afterFilter(p, t2, budget)
                          ELSE Outcome(t2, FALSE, IdleNode, FALSE, <<>>)
               IN /\ task' = [task EXCEPT ![p] = out.task]
                  /\ node' = IF out.spawn THEN [node EXCEPT ![p] = out.child] ELSE node
                  /\ active' = active \ (IF out.release THEN {SerpJob(p)} ELSE {})
                  /\ queue' = Tail(queue) \o out.enqueue
          ELSE /\ queue' = Tail(queue)
               /\ node' = node
               /\ task' = [task EXCEPT ![p].pf[i] = "running"]
               /\ active' = active \cup {job}
    /\ UNCHANGED <<pure, concurrency, budget, returnedTokens, fetched, evaluated, extracted>>

\* lines 794-807: Promise.all resolved; the results are merged in the order
\* of the SerpQueries
combinedResults(results) ==
    [weightedLearnings |->
        mergeWeightedLearnings(<<>>,
            FlatMap([i \in 1..Len(results) |-> results[i].weightedLearnings])),
     sourceMetadata |->
        mergeSourceMetadata(<<>>,
            FlatMap([i \in 1..Len(results) |-> results[i].sourceMetadata])),
     visitedUrls |->
        ArrayFromSet(FlatMap([i \in 1..Len(results) |-> results[i].visitedUrls]))]

\* mutant: the results are taken in the reverse of the order of the queries
resultsOf_reversed(n) ==
    [i \in 1..Len(node[n].queries) |->
        task[Append(n, Len(node[n].queries) + 1 - i)].result]

\* line 634-636: Promise.all keeps the order of the SerpQueries
resultsOf(n) == [i \in 1..Len(node[n].queries) |-> task[Append(n, i)].result]

NodeReturns(n) ==
    /\ CanNodeReturn(n)
    /\ node' = [node EXCEPT ![n].status = "done",
                            ![n].result = combinedResults(resultsOf(n))]
    /\ UNCHANGED <<pure, concurrency, budget, returnedTokens, task, queue, active, fetched, evaluated, extracted>>

\* Promise.all rejects as soon as one of its promises rejects; nothing in
\* deepResearch catches it
NodeRejects(n) ==
    /\ CanNodeReject(n)
    /\ node' = [node EXCEPT ![n].status = "rejected"]
    /\ UNCHANGED <<pure, concurrency, budget, returnedTokens, task, queue, active, fetched, evaluated, extracted>>

\* line 742: `return deepResearch(...)` without await: the task's promise
\* takes the fate of the recursive call, a rejection included (the try of
\* line 646 does not see it). The frame of the call and the results of its
\* tasks are no longer referenced and are dropped; a call that rejected while
\* some of its tasks still run leaves them its breadth, depth and seeds.
ChildSettles(p) ==
    /\ CanChildSettle(p)
    /\ task' = [q \in TaskIds |->
            IF q = p
            THEN IF node[p].status = "done"
                 THEN settled(task[p], node[p].result, FALSE)
                 ELSE [settled(task[p], emptyResult, FALSE) EXCEPT !.pc = "rejected"]
            ELSE IF Front(q) = p /\ task[q].pc = "done"
            THEN [task[q] EXCEPT !.result = EmptyAcc, !.failed = FALSE]
            ELSE task[q]]
    /\ node' = [node EXCEPT ![p] =
            IF \A q \in tasksOf(p) : task[q].pc \in {"done", "rejected"}
            THEN [IdleNode EXCEPT !.status = "over"]
            ELSE [node[p] EXCEPT !.status = "over", !.result = EmptyAcc]]
    /\ active' = active \ {SerpJob(p)}
    /\ UNCHANGED <<pure, concurrency, budget, returnedTokens, queue, fetched, evaluated, extracted>>

(***************************************************************************)
(* Completions of the awaited calls.                                       *)
(***************************************************************************)
\* lines 601-631: the planner call of node n returned
PlannerReturns(n) ==
    /\ node[n].status = "planning"
    /\ ~MicrotaskPending
    /\ \E object \in PlannerResponses, usage \in Usages :
        LET serpQueries == validatedQueries(object)
            ids == {Append(n, i) : i \in 1..Len(serpQueries)}
        IN /\ budget' = recordUsage(budget, usage)
           /\ pure' = received("planner", n, 0, TRUE, object)
           /\ returnedTokens' = returnedWith(budget, usage)
           /\ IF serpQueries = <<>>
              THEN /\ node' = [node EXCEPT
                        ![n].status = "done",
                        ![n].result =
                            [weightedLearnings |-> normalizedWeightedLearnings(n),
                             sourceMetadata |-> normalizedSourceMetadata(n),
                             visitedUrls |-> node[n].seed.visitedUrls]]
                   /\ UNCHANGED <<task, queue>>
              ELSE /\ node' = [node EXCEPT ![n].status = "fanout",
                                           ![n].queries = serpQueries]
                   /\ task' = [p \in TaskIds |->
                                IF p \in ids THEN [IdleTask EXCEPT !.pc = "queued"]
                                ELSE task[p]]
                   /\ queue' = queue \o [i \in 1..Len(serpQueries) |->
                                            SerpJob(Append(n, i))]
    /\ UNCHANGED <<concurrency, active, fetched, evaluated, extracted>>

\* the planner call failed: line 601 is outside every try
PlannerFails(n) ==
    /\ node[n].status = "planning"
    /\ ~MicrotaskPending
    /\ node' = [node EXCEPT ![n].status = "rejected"]
    /\ pure' = received("planner", n, 0, FALSE, <<>>)
    /\ UNCHANGED <<concurrency, budget, returnedTokens, task, queue, active, fetched, evaluated, extracted>>

\* line 648: searchSearXNG resolved
SearchReturns(p) ==
    /\ task[p].pc = "search"
    /\ ~MicrotaskPending
    /\ \E hits \in SearchResponses :
        /\ pure' = received("search", p, 0, TRUE, hits)
        /\ Apply(p, afterSearch(p, task[p], hits, budget), {})
    /\ UNCHANGED <<concurrency, budget, returnedTokens, fetched, extracted>>

SearchFails(p) ==
    /\ task[p].pc = "search"
    /\ ~MicrotaskPending
    /\ pure' = received("search", p, 0, FALSE, <<>>)
    /\ Apply(p, taskFails(p, task[p]), {})
    /\ UNCHANGED <<concurrency, budget, returnedTokens, fetched, extracted>>

\* scraper.ts 55-82: a pre-filter call returned. When it was the last one
\* of its task, filterSearchResults resolves and the task goes on.
PrefilterReturns(p, i) ==
    /\ i \in 1..Len(task[p].pf)
    /\ task[p].pf[i] = "running"
    /\ ~MicrotaskPending
    /\ \E shouldScrape \in BOOLEAN, usage \in Usages :
        LET bud == recordUsage(budget, usage)
            t2  == [task[p] EXCEPT !.pf[i] = IF shouldScrape THEN "yes" ELSE "no"]
        IN /\ budget' = bud
           /\ pure' = received("filter", p, i, TRUE, shouldScrape)
           /\ returnedTokens' = returnedWith(budget, usage)
           /\ IF task[p].pc # "filter"
              THEN /\ task' = [task EXCEPT ![p].pf[i] = "over"]
                   /\ active' = active \ {FilterJob(p, i)}
                   /\ UNCHANGED <<node, queue, evaluated>>
              ELSE IF \A k \in 1..Len(t2.pf) : t2.pf[k] \in {"yes", "no"}
              THEN Apply(p, afterFilter(p, t2, bud), {FilterJob(p, i)})
              ELSE Apply(p, Outcome(t2, FALSE, IdleNode, FALSE, <<>>),
                         {FilterJob(p, i)})
    /\ UNCHANGED <<concurrency, fetched, extracted>>

\* a pre-filter call failed: Promise.all of scraper.ts 51 rejects and the
\* task's catch runs; the task's other pre-filter jobs stay with the limiter
PrefilterFails(p, i) ==
    /\ i \in 1..Len(task[p].pf)
    /\ task[p].pf[i] = "running"
    /\ ~MicrotaskPending
    /\ pure' = received("filter", p, i, FALSE, FALSE)
    /\ IF task[p].pc # "filter"
       THEN /\ task' = [task EXCEPT ![p].pf[i] = "over"]
            /\ active' = active \ {FilterJob(p, i)}
            /\ UNCHANGED <<node, queue, evaluated>>
       ELSE Apply(p, taskFails(p, [task[p] EXCEPT !.pf[i] = "over"]),
                  {FilterJob(p, i)})
    /\ UNCHANGED <<concurrency, budget, returnedTokens, fetched, extracted>>

\* scraper.ts 105-157: one fetch of the task settled; scrapeUrl never throws
FetchReturns(p, k) ==
    /\ task[p].pc = "fetch"
    /\ k \in 1..Len(task[p].pages)
    /\ task[p].pages[k].state = "pending"
    /\ ~MicrotaskPending
    /\ \E page \in scrapeUrl(task[p].pages[k].url) :
        LET t2 == [task[p] EXCEPT !.pages[k] = page]
        IN /\ pure' = received("fetch", p, k, TRUE, page)
           /\ fetched' = IF page.state = "page" THEN fetched \cup {page.url}
                         ELSE fetched
           /\ IF \A j \in 1..Len(t2.pages) : t2.pages[j].state # "pending"
              THEN Apply(p, afterScrape(p, t2, budget), {})
              ELSE Apply(p, Outcome(t2, FALSE, IdleNode, FALSE, <<>>), {})
    /\ UNCHANGED <<concurrency, budget, returnedTokens, extracted>>

\* lines 275-304: the evaluator call returned
EvaluatorReturns(p) ==
    /\ task[p].pc = "evaluate"
    /\ ~MicrotaskPending
    /\ LET items == validItems(scrapedResults(task[p].pages))
       IN \E evaluations \in EvalResponses(Len(items)), usage \in Usages :
            LET bud == recordUsage(budget, usage)
            IN /\ budget' = bud
               /\ pure' = received("evaluate", p, 0, TRUE, evaluations)
               /\ returnedTokens' = returnedWith(budget, usage)
               /\ Apply(p, afterEvaluation(p, task[p],
                              evaluationResults(items, evaluations), bud), {})
    /\ UNCHANGED <<concurrency, fetched, extracted>>

\* lines 340-347: the evaluator call failed; every source gets the default
EvaluatorFails(p) ==
    /\ task[p].pc = "evaluate"
    /\ ~MicrotaskPending
    /\ pure' = received("evaluate", p, 0, FALSE, <<>>)
    /\ Apply(p, afterEvaluation(p, task[p],
                   evaluationFallback(validItems(scrapedResults(task[p].pages))),
                   budget), {})
    /\ UNCHANGED <<concurrency, budget, returnedTokens, fetched, extracted>>

\* lines 404-466: the extractor call returned
ExtractorReturns(p) ==
    /\ task[p].pc = "extract"
    /\ ~MicrotaskPending
    /\ \E object \in ExtractResponses, usage \in ExtractorUsages :
        LET bud  == recordUsage(budget, usage)
            proc == processed(object, task[p].sourceMetadata,
                              newBreadth(node[Front(p)].breadth))
        IN /\ budget' = bud
           /\ pure' = received("extract", p, 0, TRUE, object)
           /\ returnedTokens' = returnedWith(budget, usage)
           /\ extracted' = extracted \cup Range(proc.weightedLearnings)
           /\ Apply(p, afterProcessed(p, task[p], proc, bud), {})
    /\ UNCHANGED <<concurrency, fetched>>

\* the extractor call failed or timed out (line 406): the task's catch runs
ExtractorFails(p) ==
    /\ task[p].pc = "extract"
    /\ ~MicrotaskPending
    /\ pure' = received("extract", p, 0, FALSE, <<>>)
    /\ Apply(p, taskFails(p, task[p]), {})
    /\ UNCHANGED <<concurrency, budget, returnedTokens, fetched, extracted>>

(***************************************************************************)
(* The invocation: the root call deepResearch({query, breadth, depth,      *)
(* tokenBudget}) has just reached its planner call.                        *)
(***************************************************************************)
\* lines 581-585: the BudgetState a root call creates
newBudget(tokenBudget) ==
    IF tokenBudget = 0 THEN NoBudget
    ELSE [defined |-> TRUE, tokenBudget |-> tokenBudget, usedTokens |-> 0,
          reached |-> FALSE]

\* accumulators a caller may seed the root call with (lines 534-538): they
\* hold a repeated content, a blank content and a repeated url
CallerSeed ==
    [weightedLearnings |->
        <<[content |-> <<"a">>, reliability |-> 5],
          [content |-> <<"a", " ">>, reliability |-> 9],
          [content |-> <<" ">>, reliability |-> 7]>>,
     sourceMetadata |->
        <<[url |-> 1, domain |-> 1, reliabilityScore |-> 2,
           reliabilityReasoning |-> "s"],
          [url |-> 1, domain |-> 1, reliabilityScore |-> 7,
           reliabilityReasoning |-> "t"]>>,
     visitedUrls |-> <<2>>]

\* Config.concurrency when CONCURRENCY is not set (scraper.ts 181)
DefaultConcurrency == 2

\* seeded root calls are explored at the default concurrency
RootSeeds(c) == IF c = DefaultConcurrency THEN {EmptyAcc, CallerSeed} ELSE {EmptyAcc}

InitInvocation(c, tokenBudget, depth, seed) ==
    /\ concurrency = c
    /\ budget = newBudget(tokenBudget)
    /\ returnedTokens = 0
    /\ node = [n \in NodeIds |->
                IF n = <<>>
                THEN [IdleNode EXCEPT !.status = "planning", !.breadth = MaxQueries,
                                      !.depth = depth, !.seed = seed]
                ELSE IdleNode]
    /\ task = [p \in TaskIds |-> IdleTask]
    /\ queue = <<>>
    /\ active = {}
    /\ fetched = {}
    /\ evaluated = {}
    /\ extracted = {}
    /\ pure = NoCall

Init ==
    \E c \in 1..MaxConcurrency, tokenBudget \in {0, BudgetCap},
       depth \in 1..MaxDepth :
        \E seed \in RootSeeds(c) : InitInvocation(c, tokenBudget, depth, seed)

Next ==
    \/ StartJob
    \/ \E n \in NodeIds : NodeReturns(n)
    \/ \E n \in NodeIds : NodeRejects(n)
    \/ \E p \in NodeIds \ {<<>>} : ChildSettles(p)
    \/ \E n \in NodeIds : PlannerReturns(n)
    \/ \E n \in NodeIds : PlannerFails(n)
    \/ \E p \in TaskIds : SearchReturns(p)
    \/ \E p \in TaskIds : SearchFails(p)
    \/ \E p \in TaskIds, i \in 1..MaxHits : PrefilterReturns(p, i)
    \/ \E p \in TaskIds, i \in 1..MaxHits : PrefilterFails(p, i)
    \/ \E p \in TaskIds, k \in 1..MaxHits : FetchReturns(p, k)
    \/ \E p \in TaskIds : EvaluatorReturns(p)
    \/ \E p \in TaskIds : EvaluatorFails(p)
    \/ \E p \in TaskIds : ExtractorReturns(p)
    \/ \E p \in TaskIds : ExtractorFails(p)

Spec == Init /\ [][Next]_vars

(***************************************************************************)
(* generateSerpQueries on its own: the planner model has answered with     *)
(* `res.object.queries` and lines 222-244 run on the answer.               *)
(***************************************************************************)
\* the lists of queries the planner model may answer with
QueryLists ==
    UNION {[1..k -> [reliabilityThreshold : RawThresholds,
                     isVerificationQuery : BOOLEAN]] : k \in 0..MaxLen}

InitQueries ==
    /\ concurrency = DefaultConcurrency
    /\ \E tokenBudget \in {0, BudgetCap} : budget = newBudget(tokenBudget)
    /\ returnedTokens = 0
    /\ node = [n \in NodeIds |-> IdleNode]
    /\ task = [p \in TaskIds |-> IdleTask]
    /\ queue = <<>>
    /\ active = {}
    /\ fetched = {}
    /\ evaluated = {}
    /\ extracted = {}
    /\ \E queries \in QueryLists :
        pure = [fn |-> "generateSerpQueries", in |-> queries, out |-> <<>>,
                returned |-> FALSE]

\* lines 222-244: the usage is recorded, the thresholds are clamped
generateSerpQueries ==
    /\ pure.fn = "generateSerpQueries"
    /\ ~pure.returned
    /\ \E usage \in Usages :
        /\ budget' = recordUsage(budget, usage)
        /\ returnedTokens' = returnedWith(budget, usage)
    /\ pure' = [pure EXCEPT !.out = validatedQueries(pure.in), !.returned = TRUE]
    /\ UNCHANGED <<concurrency, node, task, queue, active, fetched, evaluated,
                   extracted>>

NextQueries == generateSerpQueries

SpecQueries == InitQueries /\ [][NextQueries]_vars

(***************************************************************************)
(* Observations on an invocation.                                          *)
(***************************************************************************)
\* a deepResearch call has returned (its frame still holds the result)
Returned(n) == node[n].status = "done"

\* the calls in flight: planner calls (line 601), search calls (line 648),
\* evaluator and extractor calls (lines 275, 406), pre-filter calls
\* (scraper.ts 65) and page fetches (scraper.ts 107)
InFlight ==
    Cardinality({n \in NodeIds : node[n].status = "planning"})
    + Cardinality({p \in TaskIds : task[p].pc \in {"search", "evaluate", "extract"}})
    + Cardinality({x \in TaskIds \X (1..MaxHits) :
                     /\ x[2] <= Len(task[x[1]].pf)
                     /\ task[x[1]].pf[x[2]] = "running"})
    + Cardinality({x \in TaskIds \X (1..MaxHits) :
                     /\ x[2] <= Len(task[x[1]].pages)
                     /\ task[x[1]].pages[x[2]].state = "pending"})

\* the results of the tasks of node n that did not go through the catch
survivingResults(n) ==
    LET all == resultsOf(n)
        idx == SelectIdx(Len(all), {i \in 1..Len(all) : ~task[Append(n, i)].failed})
    IN [j \in 1..Len(idx) |-> all[idx[j]]]

\* the result holds the learning l: same trimmed content, reliability >=
HoldsLearning(result, l) ==
    \E r \in Range(result.weightedLearnings) :
        trim(r.content) = trim(l.content) /\ r.reliability >= l.reliability

HoldsSource(result, s) ==
    \E r \in Range(result.sourceMetadata) : r.url = s.url

\* no two records of the list have the same url
UniqueUrls(sourceMetadata) ==
    \A i, j \in 1..Len(sourceMetadata) :
        sourceMetadata[i].url = sourceMetadata[j].url => i = j

\* no two learnings of the list have the same trimmed content, none is blank
UniqueContents(weightedLearnings) ==
    /\ \A i, j \in 1..Len(weightedLearnings) :
        trim(weightedLearnings[i].content) = trim(weightedLearnings[j].content)
            => i = j
    /\ \A i \in 1..Len(weightedLearnings) : trim(weightedLearnings[i].content) # <<>>

\* the accumulators the root call was given
rootSeed == node[<<>>].seed

(***************************************************************************)
(* C1. Concurrency bound.                                                  *)
(***************************************************************************)
\* C1: at every instant of an invocation the number of in-flight model
\* calls, search calls and page fetches, over all nodes, is at most
\* CONCURRENCY (planner calls and the fetches of scrapeUrls included).
C1_InFlightBounded == InFlight <= concurrency

(***************************************************************************)
(* C2. The invocation never rejects.                                       *)
(***************************************************************************)
\* C2: whatever model, search or fetch call fails (the root's planner call
\* included), the root deepResearch call does not reject.
C2_NeverRejects == node[<<>>].status # "rejected"

(***************************************************************************)
(* C3. A failing SerpQuery task is isolated from its siblings.             *)
(***************************************************************************)
\* C3: when the search call, a pre-filter call or the extractor call of a
\* SerpQuery task fails, the task contributes empty learnings, sources and
\* visited urls, and the node's result is the combination of the results of
\* the other tasks, exactly as if the failing task had not existed.
C3_FailureIsolated ==
    \A n \in NodeIds :
        (Returned(n) /\ node[n].queries # <<>>) =>
            /\ \A p \in tasksOf(n) : task[p].failed => task[p].result = EmptyAcc
            /\ node[n].result = combinedResults(survivingResults(n))

\* a node that was seeded returned with a failed task next to a sibling that
\* contributed learnings, sources and visited urls
C3_Witness ==
    \E n \in NodeIds :
        /\ Returned(n)
        /\ node[n].seed # EmptyAcc
        /\ \E p, q \in tasksOf(n) :
            /\ task[p].failed
            /\ ~task[q].failed
            /\ task[q].result.weightedLearnings # <<>>
            /\ task[q].result.sourceMetadata # <<>>
            /\ task[q].result.visitedUrls # <<>>

(***************************************************************************)
(* C4. Accumulators only grow.                                             *)
(***************************************************************************)
\* C4: the result a node returns holds every seeded learning (by trimmed
\* content, with a reliability at least the seeded one), every seeded source
\* url and every seeded visited url, whatever happened in its tasks.
C4_SeedsRetained ==
    \A n \in NodeIds :
        Returned(n) =>
            /\ \A l \in Range(node[n].seed.weightedLearnings) :
                trim(l.content) # <<>> => HoldsLearning(node[n].result, l)
            /\ \A s \in Range(node[n].seed.sourceMetadata) :
                s.url # 0 => HoldsSource(node[n].result, s)
            /\ Range(node[n].seed.visitedUrls) \subseteq Range(node[n].result.visitedUrls)

(***************************************************************************)
(* C5. Visited urls are the fetched urls.                                  *)
(***************************************************************************)
\* C5: the visitedUrls the root call returns are exactly the urls for which
\* the fetcher returned a page in some task of some node, plus the seeded
\* urls.
C5_VisitedAreFetched ==
    Returned(<<>>) =>
        Range(node[<<>>].result.visitedUrls)
            = fetched \cup Range(rootSeed.visitedUrls)

(***************************************************************************)
(* C6. Reliability of the returned learnings.                              *)
(***************************************************************************)
\* C6: every weighted learning of a result returned by deepResearch has a
\* reliability within [0,1] (0..10 in tenths).
C6_ReliabilityInRange ==
    \A n \in NodeIds :
        Returned(n) =>
            \A l \in Range(node[n].result.weightedLearnings) :
                l.reliability >= 0 /\ l.reliability <= 10

(***************************************************************************)
(* C7. Thresholds of the planner's queries are clamped.                    *)
(***************************************************************************)
\* C7: every SerpQuery generateSerpQueries returns has a reliabilityThreshold
\* in [0,1]: a model value below 0 becomes 0, a value above 1 becomes 1, a
\* value within [0,1] is unchanged.
C7_ThresholdClamped ==
    (pure.fn = "generateSerpQueries" /\ pure.returned) =>
        /\ Len(pure.out) = Len(pure.in)
        /\ \A i \in 1..Len(pure.in) :
            LET raw == pure.in[i].reliabilityThreshold
                got == pure.out[i].reliabilityThreshold
            IN /\ got >= 0 /\ got <= 10
               /\ raw < 0 => got = 0
               /\ raw > 10 => got = 10
               /\ (raw >= 0 /\ raw <= 10) => got = raw

\* generateSerpQueries returned two queries, one whose threshold was raised
\* to 0 and one whose threshold was lowered to 1
C7_Witness ==
    /\ pure.fn = "generateSerpQueries"
    /\ pure.returned
    /\ \E i, j \in 1..Len(pure.in) :
        /\ pure.in[i].reliabilityThreshold < 0
        /\ pure.out[i].reliabilityThreshold = 0
        /\ pure.in[j].reliabilityThreshold > 10
        /\ pure.out[j].reliabilityThreshold = 10

(***************************************************************************)
(* C8. Source metadata of a result.                                        *)
(***************************************************************************)
\* C8: the sourceMetadata of every result returned by deepResearch has at most
\* one record per url, and the record retained for a url carries the highest
\* reliabilityScore of all the records seen for that url in the invocation.
C8_SourcesUniqueMax ==
    /\ \A n \in NodeIds :
        Returned(n) => UniqueUrls(node[n].result.sourceMetadata)
    /\ Returned(<<>>) =>
        \A r \in Range(node[<<>>].result.sourceMetadata) :
            \A s \in evaluated \cup Range(rootSeed.sourceMetadata) :
                s.url = r.url => r.reliabilityScore >= s.reliabilityScore

(***************************************************************************)
(* C9. Weighted learnings of a result.                                     *)
(***************************************************************************)
\* C9: the weightedLearnings of every result returned by deepResearch have no
\* two entries with the same trimmed content and no blank entry, and the
\* reliability retained for a content is the highest of all the learnings
\* with that trimmed content that were seeded or extracted.
C9_LearningsUniqueMax ==
    /\ \A n \in NodeIds :
        Returned(n) => UniqueContents(node[n].result.weightedLearnings)
    /\ Returned(<<>>) =>
        \A r \in Range(node[<<>>].result.weightedLearnings) :
            \A l \in extracted \cup Range(rootSeed.weightedLearnings) :
                trim(l.content) = trim(r.content) => r.reliability >= l.reliability

(***************************************************************************)
(* C10. The token counter.                                                 *)
(***************************************************************************)
\* C10: usedTokens of the invocation's BudgetState never decreases: in every
\* step its new value is at least its old value.
C10_UsedTokensMonotone == [][budget'.usedTokens >= budget.usedTokens]_vars

\* usage was recorded after the budget had already been reached
C10_Witness ==
    /\ budget.defined
    /\ budget.reached
    /\ budget.usedTokens > budget.tokenBudget + 1

(***************************************************************************)
(* C11. The reached flag is sticky.                                        *)
(***************************************************************************)
\* C11: once budget.reached is true it is true in every later state of the
\* invocation: no step takes it from true to false.
C11_ReachedSticky == [][budget.reached => budget'.reached]_vars

\* the budget was reached and two more calls recorded their usage after that
C11_Witness ==
    /\ budget.defined
    /\ budget.reached
    /\ budget.usedTokens >= budget.tokenBudget + 3

(***************************************************************************)
(* C12. reached <=> cap set and used >= cap.                               *)
(***************************************************************************)
\* C12: in every state of an invocation whose BudgetState deepResearch
\* created, reached is true if and only if a cap is set and usedTokens is at
\* least the cap.
C12_ReachedIffCapMet ==
    budget.defined =>
        (budget.reached <=>
            (budget.tokenBudget > 0 /\ budget.usedTokens >= budget.tokenBudget))

\* the recorded usage met the cap exactly
C12_Witness ==
    /\ budget.defined
    /\ budget.reached
    /\ budget.usedTokens = budget.tokenBudget

(***************************************************************************)
(* C13. Overshoot of the cap.                                              *)
(***************************************************************************)
\* the tokens one gateway call may report
CallTokens == {usageTotal(u) : u \in ExtractorUsages}
MaxCallTokens == CHOOSE m \in CallTokens : \A x \in CallTokens : x <= m

\* C13: when the research phase of an invocation with cap C ends, usedTokens
\* is at most C plus the tokens of a single gateway call.
C13_OvershootOneCall ==
    (Returned(<<>>) /\ budget.defined) =>
        budget.usedTokens <= budget.tokenBudget + MaxCallTokens

(***************************************************************************)
(* C14. After the budget is reached, no search and no recursion starts.    *)
(***************************************************************************)
\* C14: once reached is true, no SerpQuery task starts its search call and no
\* recursive deepResearch call is made, in any node: a step that ends with
\* reached true starts neither.
C14_NoStartAfterReached ==
    [][budget'.reached =>
        /\ \A p \in TaskIds : task'[p].pc = "search" => task[p].pc = "search"
        /\ \A n \in NodeIds \ {<<>>} :
            node'[n].status = "planning" => node[n].status = "planning"]_vars

\* an invocation of depth 2 whose budget is reached: both tasks of the root
\* settled without a recursive call, one of them with fetched pages
C14_Witness ==
    /\ budget.reached
    /\ node[<<>>].depth > 1
    /\ node[<<>>].status = "fanout"
    /\ Len(node[<<>>].queries) > 1
    /\ \A p \in tasksOf(<<>>) :
        /\ task[p].pc = "done"
        /\ ~task[p].failed
        /\ node[p].status = "idle"
    /\ \E p \in tasksOf(<<>>) : task[p].result.visitedUrls # <<>>

(***************************************************************************)
(* C15. After the budget is reached, no gateway call starts.               *)
(***************************************************************************)
\* C15: once reached is true, no new planner, pre-filter, evaluator or
\* extractor call is started anywhere in the invocation.
C15_NoCallAfterReached ==
    [][budget.reached =>
        /\ \A n \in NodeIds :
            node'[n].status = "planning" => node[n].status = "planning"
        /\ \A p \in TaskIds :
            /\ task'[p].pc \in {"evaluate", "extract"} => task[p].pc = task'[p].pc
            /\ \A i \in 1..Len(task'[p].pf) :
                task'[p].pf[i] = "running" =>
                    (i <= Len(task[p].pf) /\ task[p].pf[i] = "running")]_vars

(***************************************************************************)
(* The two merges on their own: three lists are merged left to right and   *)
(* right to left (deep-research.ts 66-95).                                 *)
(***************************************************************************)
\* learnings to merge: a content at two reliabilities, the same content
\* with surrounding whitespace at a tying reliability, another content, a
\* blank content
LearningPool ==
    {[content |-> <<"a">>, reliability |-> 5],
     [content |-> <<"a">>, reliability |-> 9],
     [content |-> <<" ", "a">>, reliability |-> 9],
     [content |-> <<"b">>, reliability |-> 5],
     [content |-> <<" ">>, reliability |-> 7]}

\* source records to merge: a url at two scores, the same url at a tying
\* score with another reasoning, another url, a record without url
SourcePool ==
    {[url |-> 1, domain |-> 1, reliabilityScore |-> 2, reliabilityReasoning |-> "s"],
     [url |-> 1, domain |-> 1, reliabilityScore |-> 7, reliabilityReasoning |-> "t"],
     [url |-> 1, domain |-> 1, reliabilityScore |-> 7, reliabilityReasoning |-> "u"],
     [url |-> 2, domain |-> 1, reliabilityScore |-> 5, reliabilityReasoning |-> "s"],
     [url |-> 0, domain |-> 0, reliabilityScore |-> 9, reliabilityReasoning |-> "s"]}

ListsOf(pool) == UNION {[1..k -> pool] : k \in 0..MaxLen}

\* no invocation is running
Quiescent ==
    /\ concurrency = DefaultConcurrency
    /\ budget = NoBudget
    /\ returnedTokens = 0
    /\ node = [n \in NodeIds |-> IdleNode]
    /\ task = [p \in TaskIds |-> IdleTask]
    /\ queue = <<>>
    /\ active = {}
    /\ fetched = {}
    /\ evaluated = {}
    /\ extracted = {}

InitMerge ==
    /\ Quiescent
    /\ \/ \E A, B, C \in ListsOf(LearningPool) :
            pure = [fn |-> "mergeWeightedLearnings", in |-> <<A, B, C>>,
                    out |-> <<>>, returned |-> FALSE]
       \/ \E A, B, C \in ListsOf(SourcePool) :
            pure = [fn |-> "mergeSourceMetadata", in |-> <<A, B, C>>,
                    out |-> <<>>, returned |-> FALSE]

\* merge(merge(A, B), C) and merge(A, merge(B, C)) of the weighted learnings
MergeWeightedLearnings ==
    /\ pure.fn = "mergeWeightedLearnings"
    /\ ~pure.returned
    /\ LET A == pure.in[1]
           B == pure.in[2]
           C == pure.in[3]
       IN pure' = [pure EXCEPT
            !.out = <<mergeWeightedLearnings(mergeWeightedLearnings(A, B), C),
                      mergeWeightedLearnings(A, mergeWeightedLearnings(B, C))>>,
            !.returned = TRUE]
    /\ UNCHANGED <<concurrency, budget, returnedTokens, node, task, queue, active, fetched,
                   evaluated, extracted>>

\* the same for the source records
MergeSourceMetadata ==
    /\ pure.fn = "mergeSourceMetadata"
    /\ ~pure.returned
    /\ LET A == pure.in[1]
           B == pure.in[2]
           C == pure.in[3]
       IN pure' = [pure EXCEPT
            !.out = <<mergeSourceMetadata(mergeSourceMetadata(A, B), C),
                      mergeSourceMetadata(A, mergeSourceMetadata(B, C))>>,
            !.returned = TRUE]
    /\ UNCHANGED <<concurrency, budget, returnedTokens, node, task, queue, active, fetched,
                   evaluated, extracted>>

NextMerge == MergeWeightedLearnings \/ MergeSourceMetadata

SpecMerge == InitMerge /\ [][NextMerge]_vars

(***************************************************************************)
(* C16. The merges are associative.                                        *)
(***************************************************************************)
\* C16: for all lists A, B, C, merge(merge(A, B), C) equals
\* merge(A, merge(B, C)), for mergeWeightedLearnings and for
\* mergeSourceMetadata, also when entries tie on reliability or differ only
\* in surrounding whitespace.
C16_MergeAssociative ==
    (pure.fn \in {"mergeWeightedLearnings", "mergeSourceMetadata"}
        /\ pure.returned) =>
        pure.out[1] = pure.out[2]

\* three lists of learnings were merged both ways; the first and the last
\* hold the same trimmed content, written differently, at the same
\* reliability, and the middle one holds it at a lower reliability
C16_Witness ==
    /\ pure.fn = "mergeWeightedLearnings"
    /\ pure.returned
    /\ pure.out[1] # <<>>
    /\ \E x \in Range(pure.in[1]), y \in Range(pure.in[2]), z \in Range(pure.in[3]) :
        /\ trim(x.content) = trim(z.content)
        /\ trim(x.content) = trim(y.content)
        /\ x.content # z.content
        /\ x.reliability = z.reliability
        /\ y.reliability < x.reliability

(***************************************************************************)
(* C17. A node runs at most `breadth` SerpQuery tasks.                     *)
(***************************************************************************)
\* C17: a node with breadth b executes at most b SerpQuery tasks, whatever
\* number of queries the planner model returns.
C17_AtMostBreadthTasks ==
    \A n \in NodeIds :
        node[n].status \in {"fanout", "done"} =>
            Cardinality({p \in tasksOf(n) : task[p].pc # "idle"}) <= node[n].breadth

C19_ExtractorInputAboveThreshold ==
    \A p \in TaskIds :
        task[p].pc = "extract" =>
            /\ \A x \in Range(task[p].extractorInput) :
                x.metadata.reliabilityScore >= serpQuery(p).reliabilityThreshold
            /\ \A x \in Range(task[p].extractorInput) :
                x.metadata \in Range(task[p].sourceMetadata)

(***************************************************************************)
(* writeFinalReport on its own (deep-research.ts 468-528): the report      *)
(* model is called, then the Sources section is appended.                  *)
(***************************************************************************)
\* Array.prototype.sort with (a, b) => b.reliabilityScore - a.reliabilityScore
RECURSIVE InsertSourceDesc(_, _)
InsertSourceDesc(sorted, x) ==
    IF sorted = <<>> THEN <<x>>
    ELSE IF Head(sorted).reliabilityScore >= x.reliabilityScore
    THEN <<Head(sorted)>> \o InsertSourceDesc(Tail(sorted), x)
    ELSE <<x>> \o sorted

RECURSIVE SortSourcesDesc(_)
SortSourcesDesc(s) ==
    IF s = <<>> THEN <<>>
    ELSE InsertSourceDesc(SortSourcesDesc(SubSeq(s, 1, Len(s) - 1)), s[Len(s)])

\* mutant: only the sources scored 0.5 or more are listed
sourcesSection_reliable(sourceMetadata) ==
    LET sorted == SortSourcesDesc(sourceMetadata)
        idx == SelectIdx(Len(sorted),
                   {i \in 1..Len(sorted) : sorted[i].reliabilityScore >= 5})
    IN [j \in 1..Len(idx) |->
          [url |-> sorted[idx[j]].url,
           reliability |-> sorted[idx[j]].reliabilityScore,
           reasoning |-> sorted[idx[j]].reliabilityReasoning]]

\* lines 510-525: one entry per record of the sorted list, with its url, its
\* score and its reasoning
sourcesSection(sourceMetadata) ==
    LET sorted == SortSourcesDesc(sourceMetadata)
    IN [i \in 1..Len(sorted) |->
          [url |-> sorted[i].url,
           reliability |-> sorted[i].reliabilityScore,
           reasoning |-> sorted[i].reliabilityReasoning]]

\* the lists of records a report is written for
ReportSources == UNION {[1..k -> SourcePool] : k \in 0..(MaxLen + 1)}

InitReport ==
    /\ Quiescent
    /\ \E sourceMetadata \in ReportSources :
        pure = [fn |-> "writeFinalReport", in |-> sourceMetadata, out |-> <<>>,
                returned |-> FALSE]

\* lines 494-527: the model returned the report; `sourceMetadata` is the
\* caller's array after the in-place sort
WriteFinalReport ==
    /\ pure.fn = "writeFinalReport"
    /\ ~pure.returned
    /\ pure' = [pure EXCEPT
            !.out = [reportMarkdown |-> "report",
                     sourcesSection |-> sourcesSection(pure.in),
                     sourceMetadata |-> SortSourcesDesc(pure.in)],
            !.returned = TRUE]
    /\ UNCHANGED <<concurrency, budget, returnedTokens, node, task, queue, active, fetched,
                   evaluated, extracted>>

\* line 494: the model call failed; writeFinalReport rejects
WriteFinalReportFails ==
    /\ pure.fn = "writeFinalReport"
    /\ ~pure.returned
    /\ pure' = [pure EXCEPT !.fn = "writeFinalReport rejected"]
    /\ UNCHANGED <<concurrency, budget, returnedTokens, node, task, queue, active, fetched,
                   evaluated, extracted>>

NextReport == WriteFinalReport \/ WriteFinalReportFails

SpecReport == InitReport /\ [][NextReport]_vars

(***************************************************************************)
(* C20. The Sources section.                                               *)
(***************************************************************************)
\* C20: the Sources section written by writeFinalReport lists every source
\* record it was given exactly once, in non-increasing order of
\* reliabilityScore, the low-scored sources included.
C20_SourcesSection ==
    (pure.fn = "writeFinalReport" /\ pure.returned) =>
        LET given  == pure.in
            listed == pure.out.sourcesSection
            entry(r) == [url |-> r.url, reliability |-> r.reliabilityScore,
                         reasoning |-> r.reliabilityReasoning]
        IN /\ Len(listed) = Len(given)
           /\ \A e \in Range(listed) \cup {entry(given[i]) : i \in 1..Len(given)} :
                Cardinality({i \in 1..Len(given) : entry(given[i]) = e})
                    = Cardinality({j \in 1..Len(listed) : listed[j] = e})
           /\ \A j \in 1..(Len(listed) - 1) :
                listed[j].reliability >= listed[j + 1].reliability

\* a report was written for three sources given in increasing order of
\* score, one of them scored below 0.5
C20_Witness ==
    /\ pure.fn = "writeFinalReport"
    /\ pure.returned
    /\ Len(pure.in) = 3
    /\ pure.in[1].reliabilityScore < 5
    /\ pure.in[1].reliabilityScore < pure.in[2].reliabilityScore
    /\ pure.in[2].reliabilityScore < pure.in[3].reliabilityScore
    /\ Len(pure.out.sourcesSection) = 3

(***************************************************************************)
(* C21. The evaluator's fallback.                                          *)
(***************************************************************************)
\* the source record of a page whose evaluation failed
fallbackRecord(url) ==
    [url |-> url, domain |-> hostname(url), reliabilityScore |-> 5,
     reliabilityReasoning |-> "Evaluation failed"]

\* the pages scrapeUrls returned to task p
fetchedPages(p) == scrapedResults(task[p].pages)

\* C21: when the evaluator call of a SerpQuery task fails, every fetched page
\* is kept, with score 0.5 and the reasoning "Evaluation failed"; the task
\* does not go through its catch, and it makes the extractor call when a
\* fetched page has a body.
C21_EvaluatorFallback ==
    [][\A p \in TaskIds :
        EvaluatorFails(p) =>
            LET records == {fallbackRecord(x.url) : x \in Range(fetchedPages(p))}
                bodies  == {x.markdown : x \in Range(fetchedPages(p))} \ {0}
            IN /\ ~task'[p].failed
               /\ task'[p].pc # "rejected"
               /\ IF bodies # {}
                  THEN /\ task'[p].pc = "extract"
                       /\ Range(task'[p].sourceMetadata) = records
                       /\ Len(task'[p].sourceMetadata) = Len(fetchedPages(p))
                       /\ {x.content : x \in Range(task'[p].extractorInput)} = bodies
                       /\ \A x \in Range(task'[p].extractorInput) :
                            x.metadata.reliabilityScore = 5
                  ELSE /\ task'[p].pc \in {"done", "child"}
                       /\ records \subseteq evaluated']_vars

\* the extractor is about to be called for two pages whose evaluation failed
C21_Witness ==
    \E p \in TaskIds :
        /\ task[p].pc = "extract"
        /\ Len(task[p].sourceMetadata) = 2
        /\ Len(task[p].extractorInput) = 2
        /\ \A x \in Range(task[p].sourceMetadata) :
            x.reliabilityScore = 5 /\ x.reliabilityReasoning = "Evaluation failed"

(***************************************************************************)
(* C22. The planner returns no SerpQuery.                                  *)
(***************************************************************************)
\* the step in which the planner call of node n returns an empty list
ReturnsOnNoQueries(n) ==
    /\ node[n].status = "planning"
    /\ node'[n].status = "done"

\* the step starts no task, no call of the tasks' pipeline and no recursive
\* call, and leaves the other frames alone
NothingStarted(n) ==
    /\ task' = task
    /\ queue' = queue
    /\ active' = active
    /\ fetched' = fetched
    /\ evaluated' = evaluated
    /\ extracted' = extracted
    /\ \A m \in NodeIds \ {n} : node'[m] = node[m]

\* C22 as stated: when the planner returns an empty SerpQuery list,
\* deepResearch returns the seeded learnings, source metadata and visited urls
\* unchanged, and makes no search, pre-filter, fetch, evaluator or extractor
\* call and no recursive call.
C22_SeedsUnchanged ==
    [][\A n \in NodeIds :
        ReturnsOnNoQueries(n) =>
            /\ node'[n].result = node[n].seed
            /\ NothingStarted(n)]_vars

\* C22 as amended: when the planner returns an empty SerpQuery list,
\* deepResearch returns the seeded visited urls unchanged and the seeded
\* learnings and source metadata normalised by the merge rules (no blank
\* learning, one learning per trimmed content and one record per url, each a
\* seeded entry of the highest reliability seeded for its key; the seeds
\* themselves when they are already so), and makes no search, pre-filter,
\* fetch, evaluator or extractor call and no recursive call.
C22_SeedsNormalised ==
    [][\A n \in NodeIds :
        ReturnsOnNoQueries(n) =>
            LET seed == node[n].seed
                res  == node'[n].result
            IN /\ res.visitedUrls = seed.visitedUrls
               /\ UniqueContents(res.weightedLearnings)
               /\ Range(res.weightedLearnings) \subseteq Range(seed.weightedLearnings)
               /\ \A l \in Range(seed.weightedLearnings) :
                    trim(l.content) # <<>> => HoldsLearning(res, l)
               /\ UniqueUrls(res.sourceMetadata)
               /\ Range(res.sourceMetadata) \subseteq Range(seed.sourceMetadata)
               /\ \A x \in Range(seed.sourceMetadata) :
                    x.url # 0 =>
                        \E r \in Range(res.sourceMetadata) :
                            r.url = x.url /\ r.reliabilityScore >= x.reliabilityScore
               /\ (UniqueContents(seed.weightedLearnings)
                     => res.weightedLearnings = seed.weightedLearnings)
               /\ ((UniqueUrls(seed.sourceMetadata)
                        /\ \A x \in Range(seed.sourceMetadata) : x.url # 0)
                     => res.sourceMetadata = seed.sourceMetadata)
               /\ NothingStarted(n)]_vars

\* a recursive call that was seeded with learnings, sources and visited urls
\* returned them because its planner gave no SerpQuery, while a sibling task
\* of its parent is still at work
C22_Witness ==
    \E n \in NodeIds \ {<<>>} :
        /\ node[n].status = "done"
        /\ node[n].queries = <<>>
        /\ node[n].seed.weightedLearnings # <<>>
        /\ node[n].seed.sourceMetadata # <<>>
        /\ node[n].seed.visitedUrls # <<>>
        /\ node[n].result = node[n].seed
        /\ \E q \in tasksOf(Front(n)) : q # n /\ task[q].pc \in {"search", "filter", "fetch"}

(***************************************************************************)
(* C23. A SerpQuery for which no page is fetched.                          *)
(***************************************************************************)
\* the accumulators the frame of node n starts from (lines 569-579)
seededAccumulators(n) ==
    [weightedLearnings |-> mergeWeightedLearnings(<<>>, node[n].seed.weightedLearnings),
     sourceMetadata |-> mergeSourceMetadata(<<>>, node[n].seed.sourceMetadata),
     visitedUrls |-> ArrayFromSet(node[n].seed.visitedUrls)]

\* the step in which task p is through with its search, its pre-filter and
\* its fetches, none of which failed
LeavesFetchStage(p) ==
    /\ task[p].pc \in {"search", "filter", "fetch"}
    /\ task'[p].pc \notin {"search", "filter", "fetch"}
    /\ ~SearchFails(p)
    /\ ~\E i \in 1..MaxHits : PrefilterFails(p, i)

\* C23: when no page is fetched for a SerpQuery (the pre-filter refuses all
\* its hits, or every fetch returns null), no evaluator and no extractor call
\* is made for it, it raises no error, it adds no learning, no source and no
\* url to what its node was seeded with, and the sibling tasks are untouched.
C23_NoPageNoContribution ==
    [][\A p \in TaskIds :
        (LeavesFetchStage(p)
            /\ \A k \in 1..Len(task'[p].pages) : task'[p].pages[k].state # "page")
        =>  /\ task'[p].pc \in {"done", "child"}
            /\ ~task'[p].failed
            /\ task'[p].pc = "done" => task'[p].result = seededAccumulators(Front(p))
            /\ task'[p].pc = "child" =>
                /\ node'[p].seed = seededAccumulators(Front(p))
                /\ node'[p].directions = <<>>
            /\ evaluated' = evaluated
            /\ extracted' = extracted
            /\ \A q \in TaskIds \ {p} : task'[q] = task[q]
            /\ node'[Front(p)] = node[Front(p)]]_vars

\* a task settled without a failure and without a page, while its sibling
\* has its pages and is waiting for the extractor
C23_Witness ==
    /\ ~budget.defined
    /\ node[<<>>].status = "fanout"
    /\ node[<<>>].seed = EmptyAcc
    /\ \E p, q \in tasksOf(<<>>) :
        /\ task[p].pc = "done"
        /\ ~task[p].failed
        /\ task[p].result = EmptyAcc
        /\ task[q].pc = "extract"
        /\ Len(task[q].extractorInput) = 2

(***************************************************************************)
(* The HTTP server (mcp-server.ts 94-163): one request goes through the    *)
(* API key middleware and then to the route that matches it.               *)
(*   An optional string (a header, a query parameter, Config.apiKey) is    *)
(*   [defined, text]; a text is a sequence of one-character strings.       *)
(***************************************************************************)
Undefined == [defined |-> FALSE, text |-> <<>>]
Str(text) == [defined |-> TRUE, text |-> text]

\* JavaScript truthiness of an optional string, and `a || b`
Truthy(a) == a.defined /\ a.text # <<>>
OrElse(a, b) == IF Truthy(a) THEN a ELSE b

Lower(c) ==
    CASE c = "B" -> "b" [] c = "E" -> "e" [] c = "A" -> "a" [] c = "R" -> "r"
      [] OTHER -> c

Whitespace == {" ", "\t"}

\* text.replace(/^Bearer\s+/i, ''): the word, in any case, and the
\* whitespace after it are removed when at least one whitespace follows
replaceBearer(text) ==
    LET word == <<"b", "e", "a", "r", "e", "r">>
        n == Len(word)
        RECURSIVE SkipSpace(_)
        SkipSpace(t) == IF t # <<>> /\ Head(t) \in Whitespace
                        THEN SkipSpace(Tail(t)) ELSE t
    IN IF /\ Len(text) > n
          /\ [i \in 1..n |-> Lower(text[i])] = word
          /\ text[n + 1] \in Whitespace
       THEN SkipSpace(SubSeq(text, n + 1, Len(text)))
       ELSE text

\* lines 104-106: the credential the request is judged by
provided(req) ==
    OrElse(IF req.authorization.defined
           THEN Str(replaceBearer(req.authorization.text))
           ELSE Undefined,
           req.api_key)

\* mutant: a request without any credential is let through
passes_lenient(apiKey, req) ==
    \/ req.path = "/health"
    \/ ~Truthy(apiKey)
    \/ ~Truthy(provided(req))
    \/ provided(req) = apiKey

\* lines 98-117: whether the middleware calls next()
passes(apiKey, req) ==
    \/ req.path = "/health"
    \/ ~Truthy(apiKey)
    \/ provided(req) = apiKey

\* the API key of the deployment and a key that is not it
TheKey == <<"k">>
WrongKey == <<"w">>

\* Config.apiKey (scraper.ts 180, 206): API_KEY is optional
ApiKeys == {Undefined, Str(TheKey)}

AuthorizationHeaders ==
    {Undefined,
     Str(<<>>),
     Str(<<"B", "e", "a", "r", "e", "r", " ">> \o TheKey),
     Str(<<"b", "e", "a", "r", "e", "r", " ", " ">> \o TheKey),
     Str(<<"B", "e", "a", "r", "e", "r", " ">> \o WrongKey),
     Str(<<"B", "e", "a", "r", "e", "r">>),
     Str(WrongKey)}

ApiKeyParameters == {Undefined, Str(<<>>), Str(TheKey), Str(WrongKey)}

Requests ==
    [method : {"GET", "POST", "DELETE"},
     path : {"/health", "/mcp", "/other"},
     authorization : AuthorizationHeaders,
     api_key : ApiKeyParameters]

NoResponse == [stage |-> "middleware", status |-> 0, handler |-> "none"]

InitServer ==
    /\ Quiescent
    /\ \E apiKey \in ApiKeys, req \in Requests :
        pure = [fn |-> "request", in |-> [apiKey |-> apiKey, req |-> req],
                out |-> NoResponse, returned |-> FALSE]

AtStage(stage) == pure.fn = "request" /\ pure.out.stage = stage

Respond(status, handler) ==
    /\ pure' = [pure EXCEPT !.out = [stage |-> "sent", status |-> status,
                                     handler |-> handler],
                            !.returned = TRUE]
    /\ UNCHANGED <<concurrency, budget, returnedTokens, node, task, queue, active, fetched,
                   evaluated, extracted>>

\* lines 97-118
AuthMiddleware ==
    /\ AtStage("middleware")
    /\ IF passes(pure.in.apiKey, pure.in.req)
       THEN /\ pure' = [pure EXCEPT !.out.stage = "routes"]
            /\ UNCHANGED <<concurrency, budget, returnedTokens, node, task, queue, active,
                           fetched, evaluated, extracted>>
       ELSE Respond(401, "none")

Routed(method, path) ==
    /\ AtStage("routes")
    /\ pure.in.req.method = method
    /\ pure.in.req.path = path

\* lines 120-147: the MCP transport answers the request
PostMcp == Routed("POST", "/mcp") /\ Respond(200, "POST /mcp")

\* lines 149-151
GetHealth == Routed("GET", "/health") /\ Respond(200, "GET /health")

\* lines 153-162
GetMcp == Routed("GET", "/mcp") /\ Respond(405, "GET /mcp")

\* lines 164-174
DeleteMcp == Routed("DELETE", "/mcp") /\ Respond(405, "DELETE /mcp")

\* no route matches: express answers 404
NoRoute ==
    /\ AtStage("routes")
    /\ <<pure.in.req.method, pure.in.req.path>>
         \notin {<<"POST", "/mcp">>, <<"GET", "/health">>, <<"GET", "/mcp">>,
                 <<"DELETE", "/mcp">>}
    /\ Respond(404, "none")

NextServer ==
    \/ AuthMiddleware
    \/ PostMcp
    \/ GetHealth
    \/ GetMcp
    \/ DeleteMcp
    \/ NoRoute

SpecServer == InitServer /\ [][NextServer]_vars

(***************************************************************************)
(* C24. The API key protects every path but /health.                       *)
(***************************************************************************)
\* the request carries the key: as the api_key parameter, or at the end of
\* its Authorization header
EndsWith(text, key) ==
    Len(text) >= Len(key)
        /\ SubSeq(text, Len(text) - Len(key) + 1, Len(text)) = key

CarriesKey(req, key) ==
    \/ req.api_key = Str(key)
    \/ req.authorization.defined /\ EndsWith(req.authorization.text, key)

\* C24: when API_KEY is configured, a request to a path other than /health
\* that does not carry the key is answered 401 and reaches no route handler;
\* a request to /health passes whatever it carries (GET /health is served
\* with 200); when API_KEY is not configured no request is answered 401.
C24_KeyProtectsRoutes ==
    (pure.fn = "request" /\ pure.out.stage # "middleware") =>
        LET req == pure.in.req
            apiKey == pure.in.apiKey
        IN /\ (Truthy(apiKey) /\ req.path # "/health"
                    /\ ~CarriesKey(req, apiKey.text))
                => pure.out = [stage |-> "sent", status |-> 401, handler |-> "none"]
           /\ req.path = "/health" => pure.out.status # 401
           /\ (req.path = "/health" /\ req.method = "GET" /\ pure.out.stage = "sent")
                => pure.out.handler = "GET /health"
           /\ ~Truthy(apiKey) => pure.out.status # 401

\* with a key configured, a POST to /mcp that carries no credential at all
\* was answered 401 by the middleware
C24_Witness ==
    /\ pure.fn = "request"
    /\ Truthy(pure.in.apiKey)
    /\ pure.in.req.path = "/mcp"
    /\ pure.in.req.method = "POST"
    /\ ~Truthy(pure.in.req.authorization)
    /\ ~Truthy(pure.in.req.api_key)
    /\ pure.out = [stage |-> "sent", status |-> 401, handler |-> "none"]

(***************************************************************************)
(* C25. Either way of presenting the key is accepted.                      *)
(***************************************************************************)
\* the Authorization header is `Bearer <key>`
BearerOf(key) == Str(<<"B", "e", "a", "r", "e", "r", " ">> \o key)

\* C25: when API_KEY is configured, a request that presents the correct key
\* as a Bearer token or as the api_key parameter is accepted (not answered
\* 401), whatever the other of the two carries.
C25_EitherKeyAccepted ==
    (pure.fn = "request" /\ pure.out.stage # "middleware"
        /\ Truthy(pure.in.apiKey)
        /\ \/ pure.in.req.authorization = BearerOf(pure.in.apiKey.text)
           \/ pure.in.req.api_key = pure.in.apiKey)
    => pure.out.status # 401

(***************************************************************************)
(* C26. The limiter does not deadlock.                                     *)
(***************************************************************************)
\* a SerpQuery task that holds a slot and waits for jobs of the same limiter:
\* its pre-filter jobs, or the SerpQuery tasks of its recursive call
WaitsOnLimiter(p) ==
    \/ /\ task[p].pc = "filter"
       /\ \A i \in 1..Len(task[p].pf) : task[p].pf[i] # "running"
       /\ \E i \in 1..Len(task[p].pf) : task[p].pf[i] = "queued"
    \/ /\ task[p].pc = "child"
       /\ node[p].status = "fanout"
       /\ \E q \in tasksOf(p) : task[q].pc # "done"

\* C26: every invocation with CONCURRENCY >= 1 completes: no state is
\* reachable in which every slot of the limiter is held by a SerpQuery task
\* that itself waits for pre-filter jobs or child SerpQuery tasks queued on
\* the same limiter, while no call is in flight.
C26_NoLimiterDeadlock ==
    ~(/\ concurrency >= 1
      /\ node[<<>>].status = "fanout"
      /\ queue # <<>>
      /\ Cardinality(active) = concurrency
      /\ \A job \in active : job[2] = 0 /\ WaitsOnLimiter(job[1])
      /\ InFlight = 0
      /\ ~MicrotaskPending)

(***************************************************************************)
(* C27. The budget is found reached after the extractor call.              *)
(***************************************************************************)
\* the step in which the extractor call of task p returns
ExtractorReturned(p) ==
    /\ task[p].pc = "extract"
    /\ task'[p].pc # "extract"
    /\ ~ExtractorFails(p)

\* C27: when a SerpQuery task finds reached true after its extractor call,
\* it returns the seeded accumulators merged with its own learnings, source
\* metadata and fetched urls, and makes no recursive call; when the root call
\* returns after that, the BudgetState it returns has reached = true.
C27_ReachedAfterExtractor ==
    /\ [][\A p \in TaskIds :
            (ExtractorReturned(p) /\ budget'.reached) =>
                LET seeds == seededAccumulators(Front(p))
                    res   == task'[p].result
                IN /\ task'[p].pc = "done"
                   /\ ~task'[p].failed
                   /\ \E object \in ExtractResponses :
                        /\ res.weightedLearnings
                             = mergeWeightedLearnings(seeds.weightedLearnings,
                                   extractedLearnings(object.learnings))
                        /\ Range(extractedLearnings(object.learnings))
                             \subseteq extracted'
                   /\ res.sourceMetadata
                        = mergeSourceMetadata(seeds.sourceMetadata,
                                              task[p].sourceMetadata)
                   /\ res.visitedUrls
                        = ArrayFromSet(node[Front(p)].seed.visitedUrls
                                         \o newUrlsOf(fetchedPages(p)))
                   /\ \A n \in NodeIds : node'[n] = node[n]
                   /\ queue' = queue]_vars
    /\ [][(budget.reached /\ node[<<>>].status # "done"
              /\ node'[<<>>].status = "done") => budget'.reached]_vars

\* in a seeded invocation of depth 2, a task that found the budget reached
\* after its extractor call settled without recursing; its result holds the
\* seeds merged with its own learning and source and the url it fetched;
\* the root has returned
C27_Witness ==
    /\ budget.reached
    /\ node[<<>>].depth = 2
    /\ node[<<>>].seed = CallerSeed
    /\ Returned(<<>>)
    /\ \E p \in tasksOf(<<>>) :
        /\ task[p].pc = "done"
        /\ ~task[p].failed
        /\ node[p].status = "idle"
        /\ \E l \in Range(task[p].result.weightedLearnings) : l.reliability = 12
        /\ \E x \in Range(task[p].result.sourceMetadata) :
            x.url = 1 /\ x.reliabilityScore = 9 /\ x.reliabilityReasoning = "r"
        /\ task[p].result.visitedUrls = <<2, 1>>

(***************************************************************************)
(* C28. A failing planner call of a recursive call.                        *)
(***************************************************************************)
\* C28: a failure of the planner call of a recursive call is confined to the
\* SerpQuery task that made the call: the task's promise does not reject, so
\* the parent call rejects for no other reason than its own planner call and
\* returns the merged results of its other tasks.
C28_ChildPlannerFailureConfined ==
    /\ \A p \in TaskIds : task[p].pc # "rejected"
    /\ \A n \in NodeIds :
        node[n].status = "rejected" => node[n].queries = <<>>

(***************************************************************************)
(* The two merges on their own, in both orders of their arguments          *)
(* (deep-research.ts 66-95).                                               *)
(***************************************************************************)
InitMergeOrder ==
    /\ Quiescent
    /\ \/ \E A, B \in ListsOf(LearningPool) :
            pure = [fn |-> "mergeWeightedLearnings, both orders", in |-> <<A, B>>,
                    out |-> <<>>, returned |-> FALSE]
       \/ \E A, B \in ListsOf(SourcePool) :
            pure = [fn |-> "mergeSourceMetadata, both orders", in |-> <<A, B>>,
                    out |-> <<>>, returned |-> FALSE]

\* merge(A, B) and merge(B, A) of the weighted learnings
MergeWeightedLearningsBothOrders ==
    /\ pure.fn = "mergeWeightedLearnings, both orders"
    /\ ~pure.returned
    /\ pure' = [pure EXCEPT
            !.out = <<mergeWeightedLearnings(pure.in[1], pure.in[2]),
                      mergeWeightedLearnings(pure.in[2], pure.in[1])>>,
            !.returned = TRUE]
    /\ UNCHANGED <<concurrency, budget, returnedTokens, node, task, queue, active, fetched,
                   evaluated, extracted>>

\* the same for the source records
MergeSourceMetadataBothOrders ==
    /\ pure.fn = "mergeSourceMetadata, both orders"
    /\ ~pure.returned
    /\ pure' = [pure EXCEPT
            !.out = <<mergeSourceMetadata(pure.in[1], pure.in[2]),
                      mergeSourceMetadata(pure.in[2], pure.in[1])>>,
            !.returned = TRUE]
    /\ UNCHANGED <<concurrency, budget, returnedTokens, node, task, queue, active, fetched,
                   evaluated, extracted>>

NextMergeOrder == MergeWeightedLearningsBothOrders \/ MergeSourceMetadataBothOrders

SpecMergeOrder == InitMergeOrder /\ [][NextMergeOrder]_vars

(***************************************************************************)
(* C29. The merges do not depend on the order of their arguments.          *)
(***************************************************************************)
\* C29: for all lists A and B, mergeWeightedLearnings(A, B) and
\* mergeWeightedLearnings(B, A) hold the same set of entries, and so do
\* mergeSourceMetadata(A, B) and mergeSourceMetadata(B, A), also when two
\* entries of the same key tie on reliability and differ in another field.
C29_MergeOrderInsensitive ==
    (pure.fn \in {"mergeWeightedLearnings, both orders",
                  "mergeSourceMetadata, both orders"}
        /\ pure.returned) =>
        Range(pure.out[1]) = Range(pure.out[2])

(***************************************************************************)
(* C30. No page at or above the threshold.                                 *)
(***************************************************************************)
\* C30: when no fetched page of a SerpQuery has a reliability score at or
\* above the threshold of the SerpQuery, the extractor call is not made (and
\* the SerpQuery yields no learning and no follow-up question): the extractor
\* is only ever called with some page at or above the threshold.
C30_ExtractorSkippedBelowThreshold ==
    \A p \in TaskIds :
        task[p].pc = "extract" =>
            \E x \in Range(task[p].sourceMetadata) :
                x.reliabilityScore >= serpQuery(p).reliabilityThreshold

(***************************************************************************)
(* processSerpResult up to the extractor call, on its own                  *)
(* (deep-research.ts 298-391): the evaluator model has answered with       *)
(* `res.object.evaluations`, in the order and number it chose.             *)
(***************************************************************************)
\* the pages scrapeUrls returned: page i has url i; its body is named after
\* its url, or is absent
PageLists ==
    UNION {{data \in [1..k -> [url : 1..k, markdown : 0..k]] :
                \A i \in 1..k : /\ data[i].url = i
                                /\ data[i].markdown \in {0, i}} :
           k \in 1..MaxLen}

\* the evaluations the model may return for n sources: at most one per
\* source, in any order
EvaluationLists(n) ==
    UNION {{[k \in 1..m |-> [index |-> idx[k], score |-> v[k].score,
                             reasoning |-> "r", use |-> v[k].use]] :
                idx \in {f \in [1..m -> 0..(n - 1)] :
                            \A a, b \in 1..m : f[a] = f[b] => a = b},
                v \in [1..m -> Verdicts]} :
           m \in 0..n}

\* the threshold of the SerpQuery under test (0.3, the planner's default)
TestThreshold == 3

InitEvaluate ==
    /\ Quiescent
    /\ \E data \in PageLists :
        \E evaluations \in EvaluationLists(Len(validItems(data))) :
            pure = [fn |-> "processSerpResult",
                    in |-> [data |-> data, evaluations |-> evaluations],
                    out |-> <<>>, returned |-> FALSE]

\* lines 298-304 and 349-391
EvaluateSources ==
    /\ pure.fn = "processSerpResult"
    /\ ~pure.returned
    /\ pure' = [pure EXCEPT
            !.out = serpEvaluation(pure.in.data,
                        evaluationResults(validItems(pure.in.data),
                                          pure.in.evaluations),
                        TestThreshold),
            !.returned = TRUE]
    /\ UNCHANGED <<concurrency, budget, returnedTokens, node, task, queue, active, fetched,
                   evaluated, extracted>>

NextEvaluate == EvaluateSources

SpecEvaluate == InitEvaluate /\ [][NextEvaluate]_vars

(***************************************************************************)
(* C31. Evaluations are matched with the pages by their index.             *)
(***************************************************************************)
\* C31: for every fetched page i, the score, reasoning and use decision
\* applied to page i are those of the evaluation whose index is i, whatever
\* the order of the evaluations and whether or not some are missing; exactly
\* the pages whose evaluation has use = false are dropped from the extractor
\* input and from the source metadata.
C31_EvaluationsAlignedByIndex ==
    (pure.fn = "processSerpResult" /\ pure.returned) =>
        LET items == validItems(pure.in.data)
            evs   == pure.in.evaluations
            recordsOf(i) == {x \in Range(pure.out.sourceMetadata) :
                                x.url = items[i].url}
        IN \A i \in 1..Len(items) :
            LET mine == {k \in 1..Len(evs) : evs[k].index = i - 1}
            IN /\ (\E k \in mine : evs[k].use = FALSE)
                    => /\ recordsOf(i) = {}
                       /\ \A c \in Range(pure.out.extractorInput) :
                            c.content # items[i].markdown
               /\ (\A k \in mine : evs[k].use = TRUE)
                    => /\ recordsOf(i) # {}
                       /\ \A k \in mine : \A x \in recordsOf(i) :
                            /\ x.reliabilityScore = evs[k].score
                            /\ x.reliabilityReasoning = evs[k].reasoning

(***************************************************************************)
(* C32. What a content is rendered with.                                   *)
(***************************************************************************)
\* C32: every page content given to the extractor is rendered with the
\* reliability score and the domain of the page the content was fetched
\* from, also when some kept page has no markdown body.
C32_ContentWithOwnMetadata ==
    \A p \in TaskIds :
        task[p].pc = "extract" =>
            \A x \in Range(task[p].extractorInput) :
                \E r \in Range(task[p].sourceMetadata) :
                    /\ r.url = x.content
                    /\ x.metadata.reliabilityScore = r.reliabilityScore
                    /\ x.metadata.domain = r.domain

(***************************************************************************)
(* C33. The order of the steps of a SerpQuery task.                        *)
(***************************************************************************)
\* the moves of a task from one step to another: search, pre-filter, fetch,
\* evaluate, extract in this order, steps without work being skipped
StepOrder ==
    {<<"idle", "queued">>, <<"queued", "search">>, <<"queued", "done">>,
     <<"search", "filter">>, <<"filter", "fetch">>, <<"fetch", "evaluate">>,
     <<"evaluate", "extract">>,
     <<"child", "done">>, <<"child", "rejected">>}
    \cup ({"search", "filter", "fetch", "evaluate", "extract"} \X {"done", "child"})

\* C33: within one SerpQuery task the steps happen in the order search,
\* pre-filter, fetch, evaluate, extract, and no step starts before the
\* previous one has completed: no hit is known during the search, no fetch is
\* made before every pre-filter call has returned, the evaluator and the
\* extractor are called after every fetch has settled; exactly the urls for
\* which the pre-filter returned shouldScrape = true are fetched.
C33_PipelineOrder ==
    /\ [](\A p \in TaskIds :
            LET t == task[p]
                answered == \A i \in 1..Len(t.pf) : t.pf[i] \in {"yes", "no"}
                let_through == {t.hits[i] : i \in {j \in 1..Len(t.pf) : t.pf[j] = "yes"}}
            IN /\ t.pc = "search" => t.hits = <<>> /\ t.pf = <<>> /\ t.pages = <<>>
               /\ t.pc = "filter" =>
                    t.hits # <<>> /\ Len(t.pf) = Len(t.hits) /\ t.pages = <<>>
                        /\ ~answered
               /\ t.pc \in {"fetch", "evaluate", "extract"} =>
                    /\ t.hits # <<>> /\ Len(t.pf) = Len(t.hits) /\ answered
                    /\ {t.pages[k].url : k \in 1..Len(t.pages)} \ {0} \subseteq let_through
                    /\ Len(t.pages) = Cardinality(let_through)
               /\ t.pc = "fetch" =>
                    \E k \in 1..Len(t.pages) : t.pages[k].state = "pending"
               /\ t.pc \in {"evaluate", "extract"} =>
                    /\ \A k \in 1..Len(t.pages) : t.pages[k].state # "pending"
                    /\ \E k \in 1..Len(t.pages) : t.pages[k].state = "page"
               /\ t.pc = "extract" => t.extractorInput # <<>>)
    /\ [][\A p \in TaskIds :
            task'[p].pc # task[p].pc => <<task[p].pc, task'[p].pc>> \in StepOrder]_vars

\* the search of a task returned two hits, the pre-filter refused the first
\* and let the second through, its page was fetched and evaluated, and the
\* extractor is being called
C33_Witness ==
    \E p \in TaskIds :
        /\ task[p].pc = "extract"
        /\ task[p].hits = <<1, 2>>
        /\ task[p].pf = <<"no", "yes">>
        /\ Len(task[p].pages) = 1
        /\ task[p].pages[1].url = 2
        /\ task[p].pages[1].state = "page"

(***************************************************************************)
(* C34. Every fetch of a SerpQuery fails.                                  *)
(***************************************************************************)
\* the step in which the last fetch of task p settles and none of its
\* fetches has returned a page
AllFetchesFailed(p) ==
    /\ task[p].pc = "fetch"
    /\ task'[p].pc \notin {"fetch", "evaluate"}
    /\ \A k \in 1..Len(task[p].pages) : task[p].pages[k].state # "page"

\* the task of such a step in a node of depth above 1 whose budget is not
\* reached
RecursesAfterFailedFetches(p) ==
    /\ AllFetchesFailed(p)
    /\ node[Front(p)].depth > 1
    /\ ~budgetReached(budget')

\* C34 as stated: when every fetch of a SerpQuery fails and the node's depth
\* is greater than 1 with the budget not reached, the recursive call for that
\* SerpQuery is still made, seeded with the unchanged seeded accumulators.
C34_RecursesWithUnchangedSeeds ==
    [][\A p \in TaskIds :
        RecursesAfterFailedFetches(p) =>
            /\ task'[p].pc = "child"
            /\ node'[p].status = "planning"
            /\ node'[p].seed = node[Front(p)].seed]_vars

\* C34 as amended: when every fetch of a SerpQuery fails and the node's depth
\* d is greater than 1 with the budget not reached, the recursive call for
\* that SerpQuery is still made, with depth d-1 and no research direction,
\* seeded with the seeded accumulators normalised by the merge rules (the
\* seeded accumulators themselves when they hold no blank and no duplicate
\* entry) and with nothing else.
C34_RecursesWithNormalisedSeeds ==
    [][\A p \in TaskIds :
        RecursesAfterFailedFetches(p) =>
            LET seed == node[Front(p)].seed
            IN /\ task'[p].pc = "child"
               /\ ~task'[p].failed
               /\ node'[p].status = "planning"
               /\ node'[p].depth = node[Front(p)].depth - 1
               /\ node'[p].directions = <<>>
               /\ node'[p].seed = seededAccumulators(Front(p))
               /\ (UniqueContents(seed.weightedLearnings)
                     => node'[p].seed.weightedLearnings = seed.weightedLearnings)
               /\ ((UniqueUrls(seed.sourceMetadata)
                        /\ \A x \in Range(seed.sourceMetadata) : x.url # 0)
                     => node'[p].seed.sourceMetadata = seed.sourceMetadata)
               /\ Range(node'[p].seed.visitedUrls) = Range(seed.visitedUrls)]_vars

\* in a seeded invocation of depth 2 in which no page was fetched, the hit
\* of the root's task went through the pre-filter and the recursive call of
\* the task is at its planner call, seeded with the root's seeds
C34_Witness ==
    /\ node[<<>>].depth = 2
    /\ node[<<>>].seed = CallerSeed
    /\ fetched = {}
    /\ \E p \in tasksOf(<<>>) :
        /\ task[p].pc = "child"
        /\ task[p].pf = <<"over">>
        /\ node[p].status = "planning"
        /\ node[p].depth = 1
        /\ node[p].seed = seededAccumulators(<<>>)

(***************************************************************************)
(* C35. What scrapeUrl and scrapeUrls return.                              *)
(***************************************************************************)
\* C35: scrapeUrl never throws and returns null on every failure, empty
\* content included (no content root or an empty markdown body); scrapeUrls
\* returns exactly the pages that are not null, so every page it returns has
\* a markdown body that is not empty.
C35_ReturnedPagesHaveBody ==
    \A p \in TaskIds :
        /\ task[p].pc = "fetch" =>
              \A k \in 1..Len(task[p].pages) :
                  task[p].pages[k].state \in {"pending", "null", "page"}
        /\ task[p].pc \in {"fetch", "evaluate", "extract"} =>
              LET data == scrapedResults(task[p].pages)
              IN \A k \in 1..Len(data) :
                    /\ data[k].url # 0
                    /\ data[k].markdown # 0

(***************************************************************************)
(* C36. The research directions of a recursive call.                       *)
(***************************************************************************)
\* C36: for a node with breadth b, each SerpQuery passes at most ceil(b/2)
\* follow-up questions to its child, and each research direction given to
\* the child carries the priority the extractor assigned to that question
\* whenever one was returned (3 only when it is missing).
C36_DirectionsCarryAssignedPriority ==
    \A p \in NodeIds \ {<<>>} :
        node[p].status \in {"planning", "fanout", "done", "rejected"} =>
            /\ Len(task[p].followUpQuestions)
                  <= newBreadth(node[Front(p)].breadth)
            /\ Len(node[p].directions) = Len(task[p].followUpQuestions)
            /\ \A i \in 1..Len(node[p].directions) :
                 /\ node[p].directions[i].question = task[p].followUpQuestions[i]
                 /\ node[p].directions[i].priority
                      = (IF i <= Len(task[p].followUpPriorities)
                         THEN task[p].followUpPriorities[i] ELSE 3)

(***************************************************************************)
(* C37. One BudgetState, no lost update.                                   *)
(***************************************************************************)
\* the gateway calls of the research phase that are in flight
CallsInFlight ==
    Cardinality({n \in NodeIds : node[n].status = "planning"})
    + Cardinality({p \in TaskIds : task[p].pc \in {"evaluate", "extract"}})
    + Cardinality({j \in active : j[2] # 0})

\* C37: all nodes of one invocation share one BudgetState and recordUsage is
\* atomic: under every interleaving of concurrent planner, pre-filter,
\* evaluator and extractor completions, usedTokens equals the sum of the
\* token totals of all research-phase gateway calls that have returned, with
\* no lost update.
C37_NoLostUpdate ==
    budget.defined => budget.usedTokens = returnedTokens

\* the planner calls of the root and of one recursive call have returned,
\* the second while the planner call of a sibling recursive call was in
\* flight, and the counter holds the totals of both
C37_Witness ==
    /\ budget.defined
    /\ budget.usedTokens = returnedTokens
    /\ returnedTokens >= 2 * MaxCallTokens
    /\ CallsInFlight >= 1
    /\ \E p, q \in NodeIds \ {<<>>} :
        /\ node[p].status = "fanout"
        /\ node[q].status = "planning"

(***************************************************************************)
(* The two merges on a normalized list (deep-research.ts 66-95; a list is  *)
(* normalized as the seeds are at lines 576-579, by a merge into []).      *)
(***************************************************************************)
InitNormalized ==
    /\ Quiescent
    /\ \/ \E A \in ListsOf(LearningPool) :
            pure = [fn |-> "mergeWeightedLearnings, normalized", in |-> A,
                    out |-> <<>>, returned |-> FALSE]
       \/ \E A \in ListsOf(SourcePool) :
            pure = [fn |-> "mergeSourceMetadata, normalized", in |-> A,
                    out |-> <<>>, returned |-> FALSE]

\* N = merge([], A), then merge(N, N) and merge([], N)
MergeNormalizedLearnings ==
    /\ pure.fn = "mergeWeightedLearnings, normalized"
    /\ ~pure.returned
    /\ LET N == mergeWeightedLearnings(<<>>, pure.in)
       IN pure' = [pure EXCEPT
            !.out = <<N, mergeWeightedLearnings(N, N),
                      mergeWeightedLearnings(<<>>, N)>>,
            !.returned = TRUE]
    /\ UNCHANGED <<concurrency, budget, returnedTokens, node, task, queue,
                   active, fetched, evaluated, extracted>>

\* the same for the source records
MergeNormalizedSources ==
    /\ pure.fn = "mergeSourceMetadata, normalized"
    /\ ~pure.returned
    /\ LET N == mergeSourceMetadata(<<>>, pure.in)
       IN pure' = [pure EXCEPT
            !.out = <<N, mergeSourceMetadata(N, N),
                      mergeSourceMetadata(<<>>, N)>>,
            !.returned = TRUE]
    /\ UNCHANGED <<concurrency, budget, returnedTokens, node, task, queue,
                   active, fetched, evaluated, extracted>>

NextNormalized == MergeNormalizedLearnings \/ MergeNormalizedSources

SpecNormalized == InitNormalized /\ [][NextNormalized]_vars

(***************************************************************************)
(* C39. The merges are idempotent on normalized lists.                     *)
(***************************************************************************)
\* C39: merge is idempotent on normalized lists: for every list A, with
\* N = mergeWeightedLearnings([], A), mergeWeightedLearnings(N, N) equals N
\* and mergeWeightedLearnings([], N) equals N; the same holds for
\* mergeSourceMetadata.
C39_MergeIdempotent ==
    (pure.returned
        /\ pure.fn \in {"mergeWeightedLearnings, normalized",
                        "mergeSourceMetadata, normalized"}) =>
        /\ pure.out[2] = pure.out[1]
        /\ pure.out[3] = pure.out[1]

\* the merge was applied to a list that normalisation had changed: a
\* content that repeats with surrounding whitespace at a tying reliability
C39_Witness ==
    /\ pure.returned
    /\ pure.fn = "mergeWeightedLearnings, normalized"
    /\ pure.in = <<[content |-> <<" ", "a">>, reliability |-> 9],
                   [content |-> <<"a">>, reliability |-> 9]>>
    /\ pure.out[1] = <<[content |-> <<" ", "a">>, reliability |-> 9]>>
    /\ pure.out[2] = pure.out[1]
    /\ pure.out[3] = pure.out[1]

(***************************************************************************)
(* deepResearch as a function of the answers of its collaborators          *)
(* (deep-research.ts 530-807): an invocation without token budget in which *)
(* each answer is kept, and the result read off the code one call after    *)
(* the other: the planner call of a node, then its SerpQueries in their    *)
(* order, each with its search, pre-filter, fetch, evaluator, extractor    *)
(* and recursive call. Invocations of depth above 1 are explored up to the *)
(* default concurrency.                                                    *)
(***************************************************************************)
InitOrder ==
    \E c \in 1..MaxConcurrency, depth \in 1..MaxDepth :
        \E seed \in RootSeeds(c) :
            /\ c > DefaultConcurrency => depth = 1
            /\ concurrency = c
            /\ budget = NoBudget
            /\ returnedTokens = 0
            /\ node = [n \in NodeIds |->
                        IF n = <<>>
                        THEN [IdleNode EXCEPT !.status = "planning",
                                              !.breadth = MaxQueries,
                                              !.depth = depth, !.seed = seed]
                        ELSE IdleNode]
            /\ task = [p \in TaskIds |-> IdleTask]
            /\ queue = <<>>
            /\ active = {}
            /\ fetched = {}
            /\ evaluated = {}
            /\ extracted = {}
            /\ pure = [fn |-> "deepResearch", in |-> {}, out |-> <<>>,
                       returned |-> FALSE]

SpecOrder == InitOrder /\ [][Next]_vars

answered(kind, path, index) ==
    \E e \in pure.in : e[1] = <<kind, path, index>>

\* the answer a call received; a call without answer counts as failed
answer(kind, path, index) ==
    IF answered(kind, path, index)
    THEN (CHOOSE e \in pure.in : e[1] = <<kind, path, index>>)[2]
    ELSE [ok |-> FALSE, value |-> <<>>]

\* lines 654-665 and scraper.ts 49-87: what the pre-filter says of each hit
prefiltered(p, hits) ==
    [i \in 1..Len(hits) |->
        IF hits[i] = 0 THEN "no"
        ELSE IF ~answer("filter", p, i).ok THEN "failed"
        ELSE IF answer("filter", p, i).value THEN "yes" ELSE "no"]

RECURSIVE researchResultOf(_, _, _, _)

\* lines 646-789: the result of SerpQuery task p of a node with these seeds,
\* breadth and depth
serpQueryResultOf(p, seed, breadth, depth, reliabilityThreshold) ==
    LET search == answer("search", p, 0)
        pf     == prefiltered(p, search.value)
        urls   == urlsToScrape([hits |-> search.value, pf |-> pf])
        data   == scrapedResults([k \in 1..Len(urls) |->
                                     answer("fetch", p, k).value])
        items  == validItems(data)
        reliabilityResults ==
            IF items = <<>> THEN <<>>
            ELSE IF answer("evaluate", p, 0).ok
            THEN evaluationResults(items, answer("evaluate", p, 0).value)
            ELSE evaluationFallback(items)
        ev     == serpEvaluation(data, reliabilityResults, reliabilityThreshold)
        proc   == IF ev.contents = <<>> THEN emptyProcessed(ev.sourceMetadata)
                  ELSE processed(answer("extract", p, 0).value,
                                 ev.sourceMetadata, newBreadth(breadth))
        all    == [weightedLearnings |->
                      mergeWeightedLearnings(
                          mergeWeightedLearnings(<<>>, seed.weightedLearnings),
                          proc.weightedLearnings),
                   sourceMetadata |->
                      mergeSourceMetadata(
                          mergeSourceMetadata(<<>>, seed.sourceMetadata),
                          proc.sourceMetadata),
                   visitedUrls |->
                      ArrayFromSet(seed.visitedUrls \o newUrlsOf(data))]
    IN IF ~search.ok THEN emptyResult
       ELSE IF \E i \in 1..Len(pf) : pf[i] = "failed" THEN emptyResult
       ELSE IF ev.contents # <<>> /\ ~answer("extract", p, 0).ok THEN emptyResult
       ELSE IF newDepth(depth) <= 0 THEN all
       ELSE researchResultOf(p, all, newBreadth(breadth), newDepth(depth))

\* lines 569-626 and 634-636, 794-807: the result of the call of node n
researchResultOf(n, seed, breadth, depth) ==
    LET planner == answer("planner", n, 0)
        serpQueries == validatedQueries(planner.value)
    IN IF serpQueries = <<>>
       THEN [weightedLearnings |->
                mergeWeightedLearnings(<<>>, seed.weightedLearnings),
             sourceMetadata |->
                mergeSourceMetadata(<<>>, seed.sourceMetadata),
             visitedUrls |-> seed.visitedUrls]
       ELSE combinedResults(
              [i \in 1..Len(serpQueries) |->
                  serpQueryResultOf(Append(n, i), seed, breadth, depth,
                                    serpQueries[i].reliabilityThreshold)])

(***************************************************************************)
(* C38. The result does not depend on the order of the completions.        *)
(***************************************************************************)
\* C38: without a token budget, the ResearchResult of a node (contents and
\* order of learnings, source metadata and visited urls) is the same for
\* every order in which its sibling SerpQuery tasks and their sub-calls
\* complete, given the same responses from the model, search and fetch
\* collaborators: in whatever order the answers arrived, the result of a
\* node that returns is the one the answers give when the calls are read in
\* the order of the code.
C38_ResultIndependentOfOrder ==
    \A n \in NodeIds :
        node[n].status = "done" =>
            node[n].result = researchResultOf(n, node[n].seed, node[n].breadth,
                                              node[n].depth)

\* at the highest concurrency a root call of depth 1 has returned after the
\* extractor answered both of its SerpQuery tasks; the first task had
\* fetched the second hit only and the second task the first hit, and the
\* result lists the urls in the order of the tasks
C38_Witness ==
    /\ concurrency = MaxConcurrency
    /\ node[<<>>].status = "done"
    /\ answer("extract", <<1>>, 0).ok
    /\ answer("extract", <<2>>, 0).ok
    /\ answer("filter", <<1>>, 1).ok
    /\ ~answer("filter", <<1>>, 1).value
    /\ node[<<>>].result.visitedUrls = <<2, 1>>
    /\ node[<<>>].result.weightedLearnings # <<>>

====
